---- MODULE Spec2Model ----
(***************************************************************************)
(* Football analytics platform: the matchup projection of app/main.py      *)
(* (calculate_matchup_prediction) and the correlation sweep of             *)
(* analytics_service.py (calculate_correlation, run_analysis_cycle).       *)
(*                                                                         *)
(* Conventions                                                             *)
(*  - A date is a day number, day 0 being 2024-01-01; timedelta arithmetic *)
(*    is integer arithmetic and Year() is the calendar year of the day.    *)
(*  - A float that the code derives by division or by the decimal factors  *)
(*    0.12, 0.08, 0.02 is an exact rational <<num, den>>, den > 0.         *)
(*    final_projection (round(x, 1)) is an integer number of tenths.       *)
(*  - A nullable column is <<>> (NULL / None) or <<v>>.                     *)
(*  - A query result and a table are sequences of rows in storage order.   *)
(***************************************************************************)
EXTENDS Integers, Sequences, FiniteSets, TLC

VARIABLES
    \* ---- database tables (app/main.py models, analytics_service.py models)
    db_defense,        \* TeamDefenseStats rows
    db_history,        \* PlayerVsTeamHistory rows
    db_stats,          \* PlayerStats rows
    db_events,         \* LifeEvent rows
    db_correlation,    \* CorrelationAnalysis rows, committed
    \* ---- one call of calculate_matchup_prediction: its arguments and result
    arg_player, arg_game, arg_events, arg_stats, prediction,
    \* ---- the analytics service: one sweep of run_analysis_cycle
    pc,                \* where the service is
    todo,              \* the (player, event type) pairs the sweep has still to analyse
    session_new,       \* rows added to the sweep's session, not yet committed
    calls,             \* the calculate_correlation calls of the current sweep, in order
    db_up,             \* whether the database answers
    faults,            \* how often the database has gone down
    sweeps,            \* sweeps started
    mark,              \* the number of committed rows when the current sweep started
    startup,           \* how far run_service of the analytics service has come
    collector,         \* the collector service: where it is and what it has done
    \* ---- one evaluation of the analyzer's window queries
    w_event_date, w_days_before, w_days_after, w_windows,
    \* ---- the web handlers of app/main.py
    prediction2,       \* the result of a second calculate_matchup_prediction call
    ops,               \* store-changing requests served
    analytics,         \* the outcome of one player_analytics request
    db_players,        \* the ids of the Player rows
    current_user,      \* the user of the browser session, if logged in
    deleted            \* what the last delete request served has removed

vars == <<db_defense, db_history, db_stats, db_events, db_correlation,
          arg_player, arg_game, arg_events, arg_stats, prediction,
          pc, todo, session_new, calls, db_up, faults, sweeps, mark, startup, collector,
          w_event_date, w_days_before, w_days_after, w_windows,
          prediction2, ops, analytics, db_players, current_user, deleted>>

projVars == <<db_defense, db_history, arg_player, arg_game, arg_events, arg_stats, prediction>>
sweepVars == <<db_events, db_correlation, pc, todo, session_new, calls, db_up, faults, sweeps, mark, startup, collector>>
windowVars == <<w_event_date, w_days_before, w_days_after, w_windows>>
webVars == <<prediction2, ops, analytics, db_players, current_user, deleted>>
\* the service's variables other than the LifeEvent table
sweepRest == <<db_correlation, pc, todo, session_new, calls, db_up, faults, sweeps, mark, startup, collector>>

(***************************************************************************)
(* Bounds of the model                                                     *)
(***************************************************************************)
MaxStats == 2        \* longest mixed stats argument of a projection
MaxEvents == 2       \* longest life_events argument of a projection
MaxEventRows == 4    \* most LifeEvent rows stored when the service sweeps
MaxSweeps == 2       \* sweeps the service runs
MaxFaults == 1       \* times the database goes down
MaxRows == 3         \* most PlayerStats rows of a window evaluation
MaxDay == 2          \* latest day of a window evaluation
MaxWindow == 2       \* largest days_before / days_after of a window evaluation
MaxOps == 3          \* store-changing requests the web handlers serve
MaxRetries == 2      \* failed connection tests of a starting service

(***************************************************************************)
(* Arithmetic helpers                                                      *)
(***************************************************************************)
None == <<>>
Some(v) == <<v>>

RECURSIVE Gcd(_, _)
Gcd(a, b) == IF b = 0 THEN a ELSE Gcd(b, a % b)
Abs(a) == IF a < 0 THEN -a ELSE a

\* the rational n/d, d > 0, in lowest terms
Rat(n, d) == LET g == Gcd(Abs(n), d) IN <<n \div g, d \div g>>
RatZero == Rat(0, 1)
RatAdd(a, b) == Rat(a[1] * b[2] + b[1] * a[2], a[2] * b[2])
RatMul(a, b) == Rat(a[1] * b[1], a[2] * b[2])
RatLess(a, b) == a[1] * b[2] < b[1] * a[2]
RatSub(a, b) == RatAdd(a, Rat(-b[1], b[2]))
\* a / b for b > 0
RatDiv(a, b) == Rat(a[1] * b[2], a[2] * b[1])

RECURSIVE SumSeq(_)
SumSeq(s) == IF s = <<>> THEN 0 ELSE Head(s) + SumSeq(Tail(s))

\* round(x, 1) of the rational x, as a number of tenths; ties go to the even tenth
RoundTenths(x) ==
    LET n == 10 * x[1]
        d == x[2]
        q == n \div d
        r == n % d
    IN  IF 2 * r < d THEN q
        ELSE IF 2 * r > d THEN q + 1
        ELSE IF q % 2 = 0 THEN q ELSE q + 1

\* date.year of a day number (2024 has 366 days); dates of the model lie in 2024..2025
Year(d) == 2024 + (d \div 366)

(***************************************************************************)
(* calculate_matchup_prediction                                            *)
(***************************************************************************)
PassCatching == {"WR", "TE"}

InitialPrediction ==
    [base_projection |-> RatZero, event_adjustment |-> RatZero,
     opponent_adjustment |-> RatZero, final_projection |-> 0,
     confidence |-> 0, recommendation |-> "HOLD", factors |-> <<>>]

Factor(kind, n) == [kind |-> kind, n |-> n]

\* 1. season average of the field the position selects
BaseProjection(player, st) ==
    LET rec == SumSeq([i \in DOMAIN st |-> st[i].receiving_yards])
        rush == SumSeq([i \in DOMAIN st |-> st[i].rushing_yards])
    IN  IF player.position \in PassCatching THEN Rat(rec, Len(st)) ELSE Rat(rush, Len(st))

\* IsRecent without the events exactly 7 days before the game
IsRecentWithin6(game, e) ==
    LET days_until_game == game.game_date - e.event_date
    IN  0 <= days_until_game /\ days_until_game < 7

\* 2. the life events 0..7 days before the game
IsRecent(game, e) ==
    LET days_until_game == game.game_date - e.event_date
    IN  0 <= days_until_game /\ days_until_game <= 7

RecentEvents(game, events) == SelectSeq(events, LAMBDA e : IsRecent(game, e))

\* event_impact in hundredths: +12 for 'positive', -8 for anything else
EventImpact(recent) ==
    SumSeq([i \in DOMAIN recent |->
               IF recent[i].event_type = "positive" THEN 12 ELSE -8])

EventFactors(game, recent) ==
    [i \in DOMAIN recent |->
        Factor(IF recent[i].event_type = "positive" THEN "event_positive" ELSE "event_negative",
               game.game_date - recent[i].event_date)]

\* 3. TeamDefenseStats.query.filter_by(team_abbr, season, week).first()
DefenseLookup(game) ==
    LET hits == SelectSeq(db_defense, LAMBDA r :
                    /\ r.team_abbr = game.opponent
                    /\ r.season = game.season
                    /\ r.week = game.week)
    IN  IF hits = <<>> THEN None ELSE Some(Head(hits))

DefenseRank(player, defense) ==
    IF player.position \in PassCatching
    THEN defense[1].pass_defense_rank ELSE defense[1].rush_defense_rank

\* OpponentAdjustment from the distance of the rank to 16
OpponentAdjustmentAbs(base, rank) == RatMul(base, Rat(Abs(rank - 16) * 2, 100))

\* base * (rank_multiplier - 1), rank_multiplier = 1 + (rank - 16) * 0.02
OpponentAdjustment(base, rank) == RatMul(base, Rat((rank - 16) * 2, 100))

DefenseFactors(rank) ==
    IF rank <= 10 THEN <<Factor("tough", rank)>>
    ELSE IF rank >= 23 THEN <<Factor("favorable", rank)>>
    ELSE <<>>

\* 4. PlayerVsTeamHistory.query.filter_by(player_id, opponent_team).all()
HistoryLookup(player, game) ==
    SelectSeq(db_history, LAMBDA h :
        h.player_id = player.id /\ h.opponent_team = game.opponent)

HistoryFactors(player, base, hist) ==
    IF hist = <<>> THEN <<>>
    ELSE LET yards == IF player.position \in PassCatching
                      THEN SumSeq([i \in DOMAIN hist |-> hist[i].receiving_yards])
                      ELSE SumSeq([i \in DOMAIN hist |-> hist[i].rushing_yards])
             avg_vs_team == Rat(yards, Len(hist))
         IN  IF RatLess(RatMul(base, Rat(115, 100)), avg_vs_team)
             THEN <<Factor("strong_history", Len(hist))>>
             ELSE IF RatLess(avg_vs_team, RatMul(base, Rat(85, 100)))
             THEN <<Factor("struggles", Len(hist))>>
             ELSE <<>>

\* ConfidenceFactors without the component for at least 5 records
ConfidenceFactorsNoRecords(recent, defense, hist, st) ==
      (IF recent # <<>> THEN 25 ELSE 0)
    + (IF defense # None THEN 35 ELSE 0)
    + (IF hist # <<>> THEN 20 ELSE 0)

\* ConfidenceFactors with 30 for a recent life event
ConfidenceFactorsEvent30(recent, defense, hist, st) ==
      (IF recent # <<>> THEN 30 ELSE 0)
    + (IF defense # None THEN 35 ELSE 0)
    + (IF hist # <<>> THEN 20 ELSE 0)
    + (IF Len(st) >= 5 THEN 20 ELSE 0)

\* 6. confidence from data availability
ConfidenceFactors(recent, defense, hist, st) ==
      (IF recent # <<>> THEN 25 ELSE 0)
    + (IF defense # None THEN 35 ELSE 0)
    + (IF hist # <<>> THEN 20 ELSE 0)
    + (IF Len(st) >= 5 THEN 20 ELSE 0)

Truthy(opt) == opt # None /\ opt[1] # 0

\* 7. recommendation; diff and the thresholds 8 and 4 are in tenths
Recommendation(player, game, final_tenths, confidence) ==
    IF Truthy(game.prop_receiving_yards) \/ Truthy(game.prop_rush_yards)
    THEN LET prop_line == IF player.position \in PassCatching
                          THEN game.prop_receiving_yards ELSE game.prop_rush_yards
         IN  IF Truthy(prop_line)
             THEN LET diff == final_tenths - 10 * prop_line[1]
                  IN  IF diff >= 80 /\ confidence >= 60 THEN "STRONG OVER"
                      ELSE IF diff >= 40 THEN "LEAN OVER"
                      ELSE IF diff <= -80 /\ confidence >= 60 THEN "STRONG UNDER"
                      ELSE IF diff <= -40 THEN "LEAN UNDER"
                      ELSE "HOLD"
             ELSE "HOLD"
    ELSE "HOLD"

\* PlayerStats.query.filter_by(player_id=player.id).all(), in storage order
StoredStats(player) == SelectSeq(db_stats, LAMBDA s : s.player_id = player.id)

\* the cross-season check that follows the recommendation
CrossSeason(player, game) ==
    LET stored == StoredStats(player)
    IN  stored # <<>> /\ game.season # Year(stored[1].game_date)

\* the confidence scaled by 0.85 and rounded to the nearest integer
ScaleConfidenceRounded(c) == (c * 85 + 50) \div 100

\* int(confidence * 0.85)
ScaleConfidence(c) == (c * 85) \div 100

\* PredictionFrom with the average against the opponent as the base of the sum
PredictionFromHistoryBase(base, player, game, events, st) ==
    LET recent == RecentEvents(game, events)
        event_adjustment == IF recent # <<>>
                            THEN RatMul(base, Rat(EventImpact(recent), 100))
                            ELSE RatZero
        defense == DefenseLookup(game)
        opponent_adjustment == IF defense # None
                               THEN OpponentAdjustment(base, DefenseRank(player, defense))
                               ELSE RatZero
        hist == HistoryLookup(player, game)
        avg_vs_team == IF hist = <<>> THEN base
                       ELSE Rat(SumSeq([i \in DOMAIN hist |->
                                   IF player.position \in PassCatching
                                   THEN hist[i].receiving_yards
                                   ELSE hist[i].rushing_yards]), Len(hist))
        final == RoundTenths(RatAdd(RatAdd(avg_vs_team, event_adjustment), opponent_adjustment))
        confidence == ConfidenceFactors(recent, defense, hist, st)
        cross == CrossSeason(player, game)
    IN  [base_projection |-> base,
         event_adjustment |-> event_adjustment,
         opponent_adjustment |-> opponent_adjustment,
         final_projection |-> final,
         confidence |-> IF cross THEN ScaleConfidence(confidence) ELSE confidence,
         recommendation |-> Recommendation(player, game, final, confidence),
         factors |-> EventFactors(game, recent)
                     \o (IF defense # None
                         THEN DefenseFactors(DefenseRank(player, defense)) ELSE <<>>)
                     \o HistoryFactors(player, base, hist)
                     \o (IF cross THEN <<Factor("cross_season", 0)>> ELSE <<>>)]

\* steps 2..7 and the cross-season scaling, from the base projection
PredictionFrom(base, player, game, events, st) ==
    LET recent == RecentEvents(game, events)
        event_adjustment == IF recent # <<>>
                            THEN RatMul(base, Rat(EventImpact(recent), 100))
                            ELSE RatZero
        defense == DefenseLookup(game)
        opponent_adjustment == IF defense # None
                               THEN OpponentAdjustment(base, DefenseRank(player, defense))
                               ELSE RatZero
        hist == HistoryLookup(player, game)
        final == RoundTenths(RatAdd(RatAdd(base, event_adjustment), opponent_adjustment))
        confidence == ConfidenceFactors(recent, defense, hist, st)
        cross == CrossSeason(player, game)
    IN  [base_projection |-> base,
         event_adjustment |-> event_adjustment,
         opponent_adjustment |-> opponent_adjustment,
         final_projection |-> final,
         confidence |-> IF cross THEN ScaleConfidence(confidence) ELSE confidence,
         recommendation |-> Recommendation(player, game, final, confidence),
         factors |-> EventFactors(game, recent)
                     \o (IF defense # None
                         THEN DefenseFactors(DefenseRank(player, defense)) ELSE <<>>)
                     \o HistoryFactors(player, base, hist)
                     \o (IF cross THEN <<Factor("cross_season", 0)>> ELSE <<>>)]

\* calculate_matchup_prediction without the early return: a zero base, then steps 2..7
calculate_matchup_prediction_no_return(player, game, events, st) ==
    PredictionFrom(IF st = <<>> THEN RatZero ELSE BaseProjection(player, st),
                   player, game, events, st)

calculate_matchup_prediction(player, game, events, st) ==
    IF st = <<>> THEN InitialPrediction
    ELSE PredictionFrom(BaseProjection(player, st), player, game, events, st)

(***************************************************************************)
(* calculate_correlation (analytics_service.py)                            *)
(***************************************************************************)
\* session.query(LifeEvent).filter_by(player_id, event_type).all()
EventsOf(player_id, event_type) ==
    SelectSeq(db_events, LAMBDA e :
        e.player_id = player_id /\ e.event_type = event_type)

\* BeforeStats with the event date itself inside the window
BeforeStatsInclusive(player_id, event_date, days_before) ==
    LET before_start == event_date - days_before
    IN  SelectSeq(db_stats, LAMBDA s :
            /\ s.player_id = player_id
            /\ s.game_date >= before_start
            /\ s.game_date <= event_date)

\* the stats in [event_date - days_before, event_date)
BeforeStats(player_id, event_date, days_before) ==
    LET before_start == event_date - days_before
    IN  SelectSeq(db_stats, LAMBDA s :
            /\ s.player_id = player_id
            /\ s.game_date >= before_start
            /\ s.game_date < event_date)

\* the stats in (event_date, event_date + days_after]
AfterStats(player_id, event_date, days_after) ==
    LET after_end == event_date + days_after
    IN  SelectSeq(db_stats, LAMBDA s :
            /\ s.player_id = player_id
            /\ s.game_date > event_date
            /\ s.game_date <= after_end)

\* sum(s.fantasy_points for s in window) / len(window)
AvgFantasy(window) ==
    Rat(SumSeq([i \in DOMAIN window |-> window[i].fantasy_points]), Len(window))

\* one average per event whose before window is not empty, in event order
BeforeScores(player_id, events, days_before) ==
    LET have == SelectSeq(events, LAMBDA e :
                    BeforeStats(player_id, e.event_date, days_before) # <<>>)
    IN  [i \in DOMAIN have |->
            AvgFantasy(BeforeStats(player_id, have[i].event_date, days_before))]

AfterScores(player_id, events, days_after) ==
    LET have == SelectSeq(events, LAMBDA e :
                    AfterStats(player_id, e.event_date, days_after) # <<>>)
    IN  [i \in DOMAIN have |->
            AvgFantasy(AfterStats(player_id, have[i].event_date, days_after))]

\* Insufficient with the threshold off by one
InsufficientTwo(before_scores, after_scores) ==
    Len(before_scores) < 2 \/ Len(after_scores) < 2

\* "Need at least 3 data points for meaningful analysis"
Insufficient(before_scores, after_scores) ==
    Len(before_scores) < 3 \/ Len(after_scores) < 3

RECURSIVE RatSum(_)
RatSum(s) == IF s = <<>> THEN RatZero ELSE RatAdd(Head(s), RatSum(Tail(s)))

\* np.mean of a non-empty list of averages
RatMean(s) == RatMul(RatSum(s), Rat(1, Len(s)))

\* A correlation coefficient r is kept as its sign and its square (r itself is a
\* square root); nan is what np.corrcoef gives when one list has no variance.
CorrelationZero == [nan |-> FALSE, sign |-> 0, square |-> RatZero]

\* np.corrcoef(x, y)[0, 1] of two lists of the same length
Corrcoef(x, y) ==
    LET mx == RatMean(x)
        my == RatMean(y)
        cov == RatSum([i \in DOMAIN x |-> RatMul(RatSub(x[i], mx), RatSub(y[i], my))])
        vx == RatSum([i \in DOMAIN x |-> RatMul(RatSub(x[i], mx), RatSub(x[i], mx))])
        vy == RatSum([i \in DOMAIN y |-> RatMul(RatSub(y[i], my), RatSub(y[i], my))])
    IN  IF vx[1] = 0 \/ vy[1] = 0
        THEN [nan |-> TRUE, sign |-> 0, square |-> RatZero]
        ELSE [nan |-> FALSE,
              sign |-> IF cov[1] > 0 THEN 1 ELSE IF cov[1] < 0 THEN -1 ELSE 0,
              square |-> RatDiv(RatMul(cov, cov), RatMul(vx, vy))]

\* CorrelationResult that pairs the lists up to the shorter one's length
CorrelationResultPaired(player_id, event_type, before_scores, after_scores) ==
    LET n == IF Len(before_scores) < Len(after_scores)
             THEN Len(before_scores) ELSE Len(after_scores)
    IN  [player_id |-> player_id,
         event_type |-> event_type,
         correlation_coefficient |->
             Corrcoef(SubSeq(before_scores, 1, n), SubSeq(after_scores, 1, n)),
         sample_size |-> Len(before_scores) + Len(after_scores),
         mean_before |-> RatMean(before_scores),
         mean_after |-> RatMean(after_scores)]

\* the result dict (the t-test outputs p_value and is_significant are not part of
\* this model)
CorrelationResult(player_id, event_type, before_scores, after_scores) ==
    [player_id |-> player_id,
     event_type |-> event_type,
     correlation_coefficient |->
         IF Len(before_scores) = Len(after_scores)
         THEN Corrcoef(before_scores, after_scores) ELSE CorrelationZero,
     sample_size |-> Len(before_scores) + Len(after_scores),
     mean_before |-> RatMean(before_scores),
     mean_after |-> RatMean(after_scores)]

\* What happens inside one call: "error" is the except branch (the database does
\* not answer a query), the other three are the try block's return statements.
AnalysisPath(player_id, event_type, days_before, days_after) ==
    LET events == EventsOf(player_id, event_type)
    IN  IF ~db_up THEN "error"
        ELSE IF events = <<>> THEN "no_events"
        ELSE IF Insufficient(BeforeScores(player_id, events, days_before),
                             AfterScores(player_id, events, days_after))
        THEN "insufficient"
        ELSE "result"

\* The value the call returns: None or the result dict
calculate_correlation(player_id, event_type, days_before, days_after) ==
    LET events == EventsOf(player_id, event_type)
        before_scores == BeforeScores(player_id, events, days_before)
        after_scores == AfterScores(player_id, events, days_after)
    IN  IF ~db_up THEN None
        ELSE IF events = <<>> THEN None
        ELSE IF Insufficient(before_scores, after_scores) THEN None
        ELSE Some(CorrelationResult(player_id, event_type, before_scores, after_scores))

(***************************************************************************)
(* run_analysis_cycle (analytics_service.py)                               *)
(***************************************************************************)
event_types == <<"birth", "marriage", "injury", "family_issue", "contract">>

RECURSIVE Ascending(_)
Ascending(S) ==
    IF S = {} THEN <<>>
    ELSE LET m == CHOOSE x \in S : \A y \in S : x <= y
         IN  <<m>> \o Ascending(S \ {m})

\* session.query(Player.id).join(LifeEvent).distinct().all(); rows taken in id order
PlayersWithEvents == Ascending({db_events[i].player_id : i \in DOMAIN db_events})

RECURSIVE Pairs(_)
\* the nested loops: for each player, for each event type
Pairs(players) ==
    IF players = <<>> THEN <<>>
    ELSE [i \in DOMAIN event_types |-> <<Head(players), event_types[i]>>]
         \o Pairs(Tail(players))

\* StartSweep started from a timer, also while a sweep is analysing
StartSweepAnytime ==
    /\ pc \in {"idle", "no_players", "committed", "rolled_back", "analysing"}
    /\ sweeps < MaxSweeps
    /\ sweeps' = sweeps + 1
    /\ calls' = <<>>
    /\ session_new' = <<>>
    /\ mark' = Len(db_correlation)
    /\ IF ~db_up
       THEN pc' = "rolled_back" /\ todo' = <<>>
       ELSE IF PlayersWithEvents = <<>>
       THEN pc' = "no_players" /\ todo' = <<>>
       ELSE pc' = "analysing" /\ todo' = Pairs(PlayersWithEvents)
    /\ UNCHANGED <<db_events, db_stats, db_correlation, db_up, faults, startup, collector>>
    /\ UNCHANGED projVars
    /\ UNCHANGED windowVars
    /\ UNCHANGED webVars

\* the start of run_analysis_cycle, up to the loops
StartSweep ==
    /\ pc \in {"idle", "no_players", "committed", "rolled_back"}
    /\ sweeps < MaxSweeps
    /\ sweeps' = sweeps + 1
    /\ calls' = <<>>
    /\ session_new' = <<>>
    /\ mark' = Len(db_correlation)
    /\ IF ~db_up
       THEN pc' = "rolled_back" /\ todo' = <<>>
       ELSE IF PlayersWithEvents = <<>>
       THEN pc' = "no_players" /\ todo' = <<>>
       ELSE pc' = "analysing" /\ todo' = Pairs(PlayersWithEvents)
    /\ UNCHANGED <<db_events, db_stats, db_correlation, db_up, faults, startup, collector>>
    /\ UNCHANGED projVars
    /\ UNCHANGED windowVars
    /\ UNCHANGED webVars

\* AnalyseNext with a failing call raising into the sweep, which rolls back and ends
AnalyseNextAbort ==
    /\ pc = "analysing"
    /\ todo # <<>>
    /\ LET player_id == Head(todo)[1]
           event_type == Head(todo)[2]
           result == calculate_correlation(player_id, event_type, 30, 30)
           path == AnalysisPath(player_id, event_type, 30, 30)
       IN  /\ session_new' = IF path = "error" THEN <<>>
                             ELSE IF result # None
                             THEN Append(session_new, result[1]) ELSE session_new
           /\ calls' = Append(calls,
                  [player_id |-> player_id, event_type |-> event_type,
                   path |-> path, returned |-> result])
           /\ todo' = IF path = "error" THEN <<>> ELSE Tail(todo)
           /\ pc' = IF path = "error" THEN "rolled_back" ELSE pc
    /\ UNCHANGED <<db_events, db_stats, db_correlation, db_up, faults, sweeps, mark, startup, collector>>
    /\ UNCHANGED projVars
    /\ UNCHANGED windowVars
    /\ UNCHANGED webVars

\* one pass of the inner loop body: the call, and session.add of a truthy result
AnalyseNext ==
    /\ pc = "analysing"
    /\ todo # <<>>
    /\ LET player_id == Head(todo)[1]
           event_type == Head(todo)[2]
           result == calculate_correlation(player_id, event_type, 30, 30)
       IN  /\ session_new' = IF result # None
                             THEN Append(session_new, result[1]) ELSE session_new
           /\ calls' = Append(calls,
                  [player_id |-> player_id, event_type |-> event_type,
                   path |-> AnalysisPath(player_id, event_type, 30, 30),
                   returned |-> result])
    /\ todo' = Tail(todo)
    /\ UNCHANGED <<db_events, db_stats, db_correlation, pc, db_up, faults, sweeps, mark, startup, collector>>
    /\ UNCHANGED projVars
    /\ UNCHANGED windowVars
    /\ UNCHANGED webVars

\* session.commit() goes through when the database answers and, with rows to
\* insert, the correlation_analysis table is there
CommitSucceeds == db_up /\ (session_new = <<>> \/ startup.table)

\* a CorrelationAnalysis row: the result's columns and the analysis_date default
Row(result) ==
    [player_id |-> result.player_id, event_type |-> result.event_type,
     sample_size |-> result.sample_size, mean_before |-> result.mean_before,
     mean_after |-> result.mean_after, analysis_date |-> sweeps]

\* CommitSweep that closes the session without committing it
CommitSweepNoFlush ==
    /\ pc = "analysing"
    /\ todo = <<>>
    /\ db_correlation' = db_correlation
    /\ pc' = IF CommitSucceeds THEN "committed" ELSE "rolled_back"
    /\ session_new' = <<>>
    /\ UNCHANGED <<db_events, db_stats, todo, calls, db_up, faults, sweeps, mark, startup, collector>>
    /\ UNCHANGED projVars
    /\ UNCHANGED windowVars
    /\ UNCHANGED webVars

\* CommitSweep as an upsert keyed by (player_id, event_type)
CommitSweepUpsert ==
    /\ pc = "analysing"
    /\ todo = <<>>
    /\ IF CommitSucceeds
       THEN /\ db_correlation' =
                   SelectSeq(db_correlation, LAMBDA r :
                       \A i \in DOMAIN session_new :
                           ~(/\ session_new[i].player_id = r.player_id
                             /\ session_new[i].event_type = r.event_type))
                   \o [i \in DOMAIN session_new |->
                          [player_id |-> session_new[i].player_id,
                           event_type |-> session_new[i].event_type,
                           sample_size |-> session_new[i].sample_size,
                           mean_before |-> session_new[i].mean_before,
                           mean_after |-> session_new[i].mean_after,
                           analysis_date |-> sweeps]]
            /\ pc' = "committed"
       ELSE /\ db_correlation' = db_correlation
            /\ pc' = "rolled_back"
    /\ session_new' = <<>>
    /\ UNCHANGED <<db_events, db_stats, todo, calls, db_up, faults, sweeps, mark, startup, collector>>
    /\ UNCHANGED projVars
    /\ UNCHANGED windowVars
    /\ UNCHANGED webVars

\* CommitSweep whose failed commit leaves the rows of the session in the table
CommitSweepKeepsRows ==
    /\ pc = "analysing"
    /\ todo = <<>>
    /\ IF CommitSucceeds
       THEN /\ db_correlation' = db_correlation
                                 \o [i \in DOMAIN session_new |-> Row(session_new[i])]
            /\ pc' = "committed"
       ELSE /\ db_correlation' = db_correlation
                                 \o [i \in DOMAIN session_new |-> Row(session_new[i])]
            /\ pc' = "rolled_back"
    /\ session_new' = <<>>
    /\ UNCHANGED <<db_events, db_stats, todo, calls, db_up, faults, sweeps, mark, startup, collector>>
    /\ UNCHANGED projVars
    /\ UNCHANGED windowVars
    /\ UNCHANGED webVars

\* session.commit() after the loops; a commit that raises is rolled back
CommitSweep ==
    /\ pc = "analysing"
    /\ todo = <<>>
    /\ IF CommitSucceeds
       THEN /\ db_correlation' = db_correlation
                                 \o [i \in DOMAIN session_new |-> Row(session_new[i])]
            /\ pc' = "committed"
       ELSE /\ db_correlation' = db_correlation
            /\ pc' = "rolled_back"
    /\ session_new' = <<>>
    /\ UNCHANGED <<db_events, db_stats, todo, calls, db_up, faults, sweeps, mark, startup, collector>>
    /\ UNCHANGED projVars
    /\ UNCHANGED windowVars
    /\ UNCHANGED webVars

\* the environment: the database stops answering, and answers again
DbDown ==
    /\ db_up
    /\ faults < MaxFaults
    /\ db_up' = FALSE
    /\ faults' = faults + 1
    /\ UNCHANGED <<db_events, db_stats, db_correlation, pc, todo, session_new, calls, sweeps, mark, startup, collector>>
    /\ UNCHANGED projVars
    /\ UNCHANGED windowVars
    /\ UNCHANGED webVars

DbBack ==
    /\ ~db_up
    /\ db_up' = TRUE
    /\ UNCHANGED <<db_events, db_stats, db_correlation, pc, todo, session_new, calls,
                   faults, sweeps, mark, startup, collector>>
    /\ UNCHANGED projVars
    /\ UNCHANGED windowVars
    /\ UNCHANGED webVars

(***************************************************************************)
(* run_service of the two services: the connection test, the retry, and    *)
(* the first cycle                                                          *)
(***************************************************************************)
\* run_service that goes on to the table and the first cycle whatever the test says
test_database_connection_ignored ==
    /\ pc = "starting"
    /\ startup' = [startup EXCEPT !.connected = db_up,
                                  !.tests_failed = IF db_up \/ @ >= MaxRetries THEN @ ELSE @ + 1]
    /\ pc' = "connected"
    /\ UNCHANGED <<db_events, db_stats, db_correlation, todo, session_new, calls,
                   db_up, faults, sweeps, mark, collector>>
    /\ UNCHANGED projVars
    /\ UNCHANGED windowVars
    /\ UNCHANGED webVars

\* run_service of the analytics service up to its first branch: the connection
\* test and, when it fails, the sleep and the call of run_service again
test_database_connection ==
    /\ pc = "starting"
    /\ IF db_up
       THEN /\ startup' = [startup EXCEPT !.connected = TRUE]
            /\ pc' = "connected"
       ELSE /\ startup.tests_failed < MaxRetries
            /\ startup' = [startup EXCEPT !.tests_failed = @ + 1]
            /\ pc' = "starting"
    /\ UNCHANGED <<db_events, db_stats, db_correlation, todo, session_new, calls,
                   db_up, faults, sweeps, mark, collector>>
    /\ UNCHANGED projVars
    /\ UNCHANGED windowVars
    /\ UNCHANGED webVars

\* create_analysis_table: create_all, whose exception is logged and swallowed
create_analysis_table ==
    /\ pc = "connected"
    /\ startup' = [startup EXCEPT !.created = TRUE, !.table = @ \/ db_up]
    /\ pc' = "idle"
    /\ UNCHANGED <<db_events, db_stats, db_correlation, todo, session_new, calls,
                   db_up, faults, sweeps, mark, collector>>
    /\ UNCHANGED projVars
    /\ UNCHANGED windowVars
    /\ UNCHANGED webVars

\* run_service of the collector up to its first branch; session.execute of a
\* plain string is accepted by some versions of the library and raises in others
collector_test_database_connection ==
    /\ collector.pc = "starting"
    /\ IF db_up /\ collector.raw_sql
       THEN collector' = [collector EXCEPT !.connected = TRUE, !.pc = "idle"]
       ELSE /\ collector.tests_failed < MaxRetries
            /\ collector' = [collector EXCEPT !.tests_failed = @ + 1]
    /\ UNCHANGED <<db_events, db_stats, db_correlation, pc, todo, session_new, calls,
                   db_up, faults, sweeps, mark, startup>>
    /\ UNCHANGED projVars
    /\ UNCHANGED windowVars
    /\ UNCHANGED webVars

\* collect_data: counts the players and logs; an exception is logged and rolled back
collect_data ==
    /\ collector.pc = "idle"
    /\ collector.cycles < MaxSweeps
    /\ collector' = [collector EXCEPT !.cycles = @ + 1]
    /\ UNCHANGED <<db_events, db_stats, db_correlation, pc, todo, session_new, calls,
                   db_up, faults, sweeps, mark, startup>>
    /\ UNCHANGED projVars
    /\ UNCHANGED windowVars
    /\ UNCHANGED webVars

(***************************************************************************)
(* Input families and the three specifications                             *)
(***************************************************************************)
SeqsUpTo(S, n) == UNION {[1..k -> S] : k \in 0..n}
Uniform(n, r) == [i \in 1..n |-> r]

StatRow(player_id, game_date, fantasy_points, receiving_yards, rushing_yards) ==
    [player_id |-> player_id, game_date |-> game_date, fantasy_points |-> fantasy_points,
     receiving_yards |-> receiving_yards, rushing_yards |-> rushing_yards]

EventRow(player_id, event_type, event_date) ==
    [player_id |-> player_id, event_type |-> event_type, event_date |-> event_date]

\* both services have started: the connection tests have succeeded, the analysis
\* table is there, and the collector has not collected yet
ServicesUp ==
    /\ startup = [tests_failed |-> 0, connected |-> TRUE, created |-> TRUE, table |-> TRUE]
    /\ collector = [pc |-> "idle", raw_sql |-> TRUE, tests_failed |-> 0,
                    connected |-> TRUE, cycles |-> 0]

ProjIdle ==
    /\ db_defense = <<>>
    /\ db_history = <<>>
    /\ arg_player = [id |-> 1, position |-> "WR"]
    /\ arg_game = [game_date |-> 300, opponent |-> "KC", week |-> 1, season |-> 2024,
                   prop_receiving_yards |-> None, prop_rush_yards |-> None]
    /\ arg_events = <<>>
    /\ arg_stats = <<>>
    /\ prediction = None

SweepIdle ==
    /\ db_events = <<>>
    /\ db_correlation = <<>>
    /\ pc = "idle"
    /\ todo = <<>>
    /\ session_new = <<>>
    /\ calls = <<>>
    /\ db_up = TRUE
    /\ faults = 0
    /\ sweeps = 0
    /\ mark = 0
    /\ ServicesUp

WindowIdle ==
    /\ w_event_date = 0
    /\ w_days_before = 0
    /\ w_days_after = 0
    /\ w_windows = None

\* no request served yet; players 1 and 2 exist and an administrator is logged in
WebIdle ==
    /\ prediction2 = None
    /\ ops = 0
    /\ analytics = None
    /\ db_players = {1, 2}
    /\ current_user = Some([role |-> "admin"])
    /\ deleted = None

\* ---- the projection, over bounded arguments and stored rows
ProjStatRows == {StatRow(1, 280, 10, 60, 0), StatRow(1, 287, 10, 0, 40)}
ProjStats == SeqsUpTo(ProjStatRows, MaxStats)
             \cup {Uniform(n, r) : n \in {5, 10}, r \in ProjStatRows}
ProjEvents == SeqsUpTo({EventRow(1, "positive", 297), EventRow(1, "negative", 297),
                        EventRow(1, "positive", 292)}, MaxEvents)
ProjGames == [game_date : {300}, opponent : {"KC"}, week : {1}, season : {2024, 2025},
              prop_receiving_yards : {None, Some(50)},
              prop_rush_yards : {None, Some(30)}]
DefenseRow(team_abbr, season, week, pass_defense_rank, rush_defense_rank) ==
    [team_abbr |-> team_abbr, season |-> season, week |-> week,
     pass_defense_rank |-> pass_defense_rank, rush_defense_rank |-> rush_defense_rank]
ProjDefense == {<<>>, <<DefenseRow("KC", 2024, 1, 5, 30)>>, <<DefenseRow("KC", 2025, 1, 16, 16)>>}
ProjHistory == {<<>>, <<[player_id |-> 1, opponent_team |-> "KC",
                         receiving_yards |-> 80, rushing_yards |-> 10]>>}
ProjStored == {<<>>, <<StatRow(1, 280, 10, 60, 0)>>, <<StatRow(1, 400, 10, 60, 0)>>}

InitProject ==
    /\ arg_player \in [id : {1}, position : {"WR", "TE", "RB"}]
    /\ arg_game \in ProjGames
    /\ arg_events \in ProjEvents
    /\ arg_stats \in ProjStats
    /\ db_defense \in ProjDefense
    /\ db_history \in ProjHistory
    /\ db_stats \in ProjStored
    /\ prediction = None
    /\ SweepIdle
    /\ WindowIdle
    /\ WebIdle

\* a caller applies calculate_matchup_prediction to its arguments
Project ==
    /\ prediction = None
    /\ prediction' = Some(calculate_matchup_prediction(arg_player, arg_game, arg_events, arg_stats))
    /\ UNCHANGED <<db_defense, db_history, db_stats, arg_player, arg_game, arg_events, arg_stats>>
    /\ UNCHANGED sweepVars
    /\ UNCHANGED windowVars
    /\ UNCHANGED webVars

NextProject == Project

SpecProject == InitProject /\ [][NextProject]_vars

\* ---- the analytics service, over bounded stored events and stats
EventKey(e) == 2 * e.player_id + (IF e.event_type = "positive" THEN 1 ELSE 0)
SweepEventRows == {EventRow(1, "injury", 50), EventRow(1, "positive", 50),
                   EventRow(2, "injury", 50)}
SweepEvents == {s \in SeqsUpTo(SweepEventRows, MaxEventRows) :
                   \A i \in DOMAIN s : \A j \in DOMAIN s :
                       i < j => EventKey(s[i]) <= EventKey(s[j])}
SweepStats == {<<>>, <<StatRow(1, 40, 10, 0, 0)>>,
               <<StatRow(1, 40, 10, 0, 0), StatRow(1, 70, 20, 0, 0)>>}

Init ==
    /\ db_events \in SweepEvents
    /\ db_stats \in SweepStats
    /\ db_correlation = <<>>
    /\ pc = "idle"
    /\ todo = <<>>
    /\ session_new = <<>>
    /\ calls = <<>>
    /\ db_up = TRUE
    /\ faults = 0
    /\ sweeps = 0
    /\ mark = 0
    /\ ServicesUp
    /\ ProjIdle
    /\ WindowIdle
    /\ WebIdle

Next == StartSweep \/ AnalyseNext \/ CommitSweep \/ DbDown \/ DbBack

Spec == Init /\ [][Next]_vars

\* ---- the analytics service over the events of one (player, type) on two dates,
\* ---- so that an event can have records before it and none after it
CorrEventRows == {EventRow(1, "injury", 50), EventRow(1, "injury", 90)}
CorrStats == {<<StatRow(1, 40, 10, 0, 0)>>,
              <<StatRow(1, 40, 10, 0, 0), StatRow(1, 70, 20, 0, 0)>>,
              <<StatRow(1, 40, 10, 0, 0), StatRow(1, 70, 20, 0, 0), StatRow(1, 100, 30, 0, 0)>>}

InitCorr ==
    /\ db_events \in SeqsUpTo(CorrEventRows, MaxEventRows)
    /\ db_stats \in CorrStats
    /\ db_correlation = <<>>
    /\ pc = "idle"
    /\ todo = <<>>
    /\ session_new = <<>>
    /\ calls = <<>>
    /\ db_up = TRUE
    /\ faults = 0
    /\ sweeps = 0
    /\ mark = 0
    /\ ServicesUp
    /\ ProjIdle
    /\ WindowIdle
    /\ WebIdle

SpecCorr == InitCorr /\ [][Next]_vars

\* ---- the two services from their start, the database up or down, the
\* ---- correlation_analysis table there or not
ServiceEvents == {<<>>, Uniform(3, EventRow(1, "injury", 50)),
                  Uniform(3, EventRow(1, "injury", 50)) \o <<EventRow(2, "injury", 50)>>}

InitService ==
    /\ db_events \in ServiceEvents
    /\ db_stats = <<StatRow(1, 40, 10, 0, 0), StatRow(1, 70, 20, 0, 0)>>
    /\ db_correlation = <<>>
    /\ pc = "starting"
    /\ todo = <<>>
    /\ session_new = <<>>
    /\ calls = <<>>
    /\ db_up \in BOOLEAN
    /\ faults = 0
    /\ sweeps = 0
    /\ mark = 0
    /\ startup \in [tests_failed : {0}, connected : {FALSE}, created : {FALSE},
                    table : BOOLEAN]
    /\ collector \in [pc : {"starting"}, raw_sql : BOOLEAN, tests_failed : {0},
                      connected : {FALSE}, cycles : {0}]
    /\ ProjIdle
    /\ WindowIdle
    /\ WebIdle

NextService ==
    \/ test_database_connection \/ create_analysis_table
    \/ StartSweep \/ AnalyseNext \/ CommitSweep
    \/ collector_test_database_connection \/ collect_data
    \/ DbDown \/ DbBack

SpecService == InitService /\ [][NextService]_vars

\* ---- the analyzer's two window queries, over bounded rows, dates and window sizes
WindowRows == {StatRow(1, d, 10, 0, 0) : d \in 0..MaxDay} \cup {StatRow(2, 1, 10, 0, 0)}

InitWindow ==
    /\ db_stats \in SeqsUpTo(WindowRows, MaxRows)
    /\ w_event_date \in 0..MaxDay
    /\ w_days_before \in 0..MaxWindow
    /\ w_days_after \in 0..MaxWindow
    /\ w_windows = None
    /\ ProjIdle
    /\ SweepIdle
    /\ WebIdle

\* the two queries of one loop pass of calculate_correlation, for player 1
EvalWindows ==
    /\ w_windows = None
    /\ w_windows' = Some([before |-> BeforeStats(1, w_event_date, w_days_before),
                          after |-> AfterStats(1, w_event_date, w_days_after)])
    /\ UNCHANGED <<db_stats, w_event_date, w_days_before, w_days_after>>
    /\ UNCHANGED projVars
    /\ UNCHANGED sweepVars
    /\ UNCHANGED webVars

NextWindow == EvalWindows

SpecWindow == InitWindow /\ [][NextWindow]_vars

(***************************************************************************)
(* Flask-Login and the role decorators (app/main.py)                       *)
(***************************************************************************)
is_authenticated == current_user # None
\* User.is_admin and User.is_analyst of the logged-in user
is_admin == current_user[1].role = "admin"
is_analyst == current_user[1].role \in {"admin", "analyst"}

\* the request passes the decorator; otherwise it is redirected and changes nothing
login_required == is_authenticated
admin_required == is_authenticated /\ is_admin
analyst_required == is_authenticated /\ is_analyst

(***************************************************************************)
(* The web handlers that change the stored rows (app/main.py)              *)
(***************************************************************************)
\* the form values of add_team_defense: team, (season, week), the two ranks
FormTeams == {"KC", "XX"}
FormSeasons == {2024}
FormWeeks == {1, 2}
FormRanks == {<<16, 16>>, <<1, 30>>}

\* the UniqueConstraint('team_abbr', 'season', 'week') of TeamDefenseStats
DefenseKeyTaken(team_abbr, season, week) ==
    \E i \in DOMAIN db_defense :
        /\ db_defense[i].team_abbr = team_abbr
        /\ db_defense[i].season = season
        /\ db_defense[i].week = week

\* POST /add_team_defense: a row with the ranks of the form; the commit of a row
\* whose (team, season, week) is stored already raises and stores nothing
add_team_defense ==
    /\ ops < MaxOps
    /\ login_required /\ analyst_required
    /\ \E team_abbr \in FormTeams, season \in FormSeasons, week \in FormWeeks,
          ranks \in FormRanks :
          db_defense' = IF DefenseKeyTaken(team_abbr, season, week)
                        THEN db_defense
                        ELSE Append(db_defense,
                                 DefenseRow(team_abbr, season, week, ranks[1], ranks[2]))
    /\ ops' = ops + 1
    /\ UNCHANGED <<db_history, db_stats, arg_player, arg_game, arg_events, arg_stats,
                   prediction, prediction2, analytics,
                   db_players, current_user, deleted>>
    /\ UNCHANGED sweepVars
    /\ UNCHANGED windowVars

(***************************************************************************)
(* NFLDataCollector.get_team_defense_stats and POST /import_team_defense   *)
(***************************************************************************)
nfl_teams == <<"ARI", "ATL", "BAL", "BUF", "CAR", "CHI", "CIN", "CLE",
               "DAL", "DEN", "DET", "GB", "HOU", "IND", "JAX", "KC",
               "LAC", "LAR", "LV", "MIA", "MIN", "NE", "NO", "NYG",
               "NYJ", "PHI", "PIT", "SEA", "SF", "TB", "TEN", "WAS">>

\* round(200.0 + rank_factor * 80, 1) and round(90.0 + rank_factor * 50, 1), in
\* tenths, rank_factor = i / 32.0 for the i-th team (i counts from 1)
PassYardsAllowed(i) == RoundTenths(RatAdd(Rat(200, 1), RatMul(Rat(i, 32), Rat(80, 1))))
RushYardsAllowed(i) == RoundTenths(RatAdd(Rat(90, 1), RatMul(Rat(i, 32), Rat(50, 1))))

\* enumerate(sorted(items, key=yards), 1): the position of team i in the stable
\* sort of the teams by yards allowed
RankByPassYards(i) ==
    1 + Cardinality({j \in DOMAIN nfl_teams :
            \/ PassYardsAllowed(j) < PassYardsAllowed(i)
            \/ PassYardsAllowed(j) = PassYardsAllowed(i) /\ j < i})

RankByRushYards(i) ==
    1 + Cardinality({j \in DOMAIN nfl_teams :
            \/ RushYardsAllowed(j) < RushYardsAllowed(i)
            \/ RushYardsAllowed(j) = RushYardsAllowed(i) /\ j < i})

\* the dict the collector returns, in insertion order
get_team_defense_stats ==
    [i \in DOMAIN nfl_teams |->
        [team_abbr |-> nfl_teams[i],
         pass_defense_rank |-> RankByPassYards(i),
         rush_defense_rank |-> RankByRushYards(i)]]

\* one pass of the import loop that adds a row without looking for an existing one
ImportTeamAlwaysAdd(rows, stats, season, week) ==
    Append(rows, DefenseRow(stats.team_abbr, season, week,
                            stats.pass_defense_rank, stats.rush_defense_rank))

\* one pass of the import loop: update the existing row or add a new one
ImportTeam(rows, stats, season, week) ==
    IF \E i \in DOMAIN rows : /\ rows[i].team_abbr = stats.team_abbr
                              /\ rows[i].season = season
                              /\ rows[i].week = week
    THEN [i \in DOMAIN rows |->
            IF /\ rows[i].team_abbr = stats.team_abbr
               /\ rows[i].season = season
               /\ rows[i].week = week
            THEN [rows[i] EXCEPT !.pass_defense_rank = stats.pass_defense_rank,
                                 !.rush_defense_rank = stats.rush_defense_rank]
            ELSE rows[i]]
    ELSE Append(rows, DefenseRow(stats.team_abbr, season, week,
                                 stats.pass_defense_rank, stats.rush_defense_rank))

RECURSIVE ImportAll(_, _, _, _)
ImportAll(rows, defense_stats, season, week) ==
    IF defense_stats = <<>> THEN rows
    ELSE ImportAll(ImportTeam(rows, Head(defense_stats), season, week),
                   Tail(defense_stats), season, week)

\* POST /import_team_defense: the loop over the collector's teams and one commit
import_team_defense ==
    /\ ops < MaxOps
    /\ login_required /\ analyst_required
    /\ \E season \in FormSeasons, week \in FormWeeks :
          db_defense' = ImportAll(db_defense, get_team_defense_stats, season, week)
    /\ ops' = ops + 1
    /\ UNCHANGED <<db_history, db_stats, arg_player, arg_game, arg_events, arg_stats,
                   prediction, prediction2, analytics,
                   db_players, current_user, deleted>>
    /\ UNCHANGED sweepVars
    /\ UNCHANGED windowVars

\* ---- the defense profiles under the two handlers that write them
InitDefense ==
    /\ db_stats = <<>>
    /\ ProjIdle
    /\ SweepIdle
    /\ WindowIdle
    /\ WebIdle

NextDefense == add_team_defense \/ import_team_defense

SpecDefense == InitDefense /\ [][NextDefense]_vars

\* ---- imports over a table that holds up to two profiles entered by hand
ManualRows == {DefenseRow(t, s, w, r[1], r[2]) :
                  t \in FormTeams, s \in FormSeasons, w \in FormWeeks, r \in FormRanks}
ManualDefense ==
    {rows \in SeqsUpTo(ManualRows, 2) :
        \A i \in DOMAIN rows : \A j \in DOMAIN rows :
            (/\ rows[i].team_abbr = rows[j].team_abbr
             /\ rows[i].season = rows[j].season
             /\ rows[i].week = rows[j].week) => i = j}

InitImport ==
    /\ db_defense \in ManualDefense
    /\ db_history = <<>>
    /\ db_stats = <<>>
    /\ arg_player = [id |-> 1, position |-> "WR"]
    /\ arg_game = [game_date |-> 300, opponent |-> "KC", week |-> 1, season |-> 2024,
                   prop_receiving_yards |-> None, prop_rush_yards |-> None]
    /\ arg_events = <<>>
    /\ arg_stats = <<>>
    /\ prediction = None
    /\ SweepIdle
    /\ WindowIdle
    /\ WebIdle

NextImport == import_team_defense

SpecImport == InitImport /\ [][NextImport]_vars

\* the form values of add_stats and edit_stats
FormPlayers == {1, 2}
FormDates == {248, 255}
FormStats == {StatRow(p, d, 10, 60, 0) : p \in FormPlayers, d \in FormDates}

\* POST /add_stats/<player_id>: always a new row; 404 for a player that does not exist
add_stats ==
    /\ ops < MaxOps
    /\ login_required /\ analyst_required
    /\ \E new_stats \in FormStats :
          /\ new_stats.player_id \in db_players
          /\ db_stats' = Append(db_stats, new_stats)
    /\ ops' = ops + 1
    /\ UNCHANGED <<db_defense, db_history, arg_player, arg_game, arg_events, arg_stats,
                   prediction, prediction2, analytics,
                   db_players, current_user, deleted>>
    /\ UNCHANGED sweepVars
    /\ UNCHANGED windowVars

\* POST /edit_stats/<stats_id>: the row's date and values are set from the form;
\* stats_id is the row's position in the table
edit_stats ==
    /\ ops < MaxOps
    /\ login_required /\ analyst_required
    /\ \E stats_id \in DOMAIN db_stats, form \in FormStats :
          /\ db_stats[stats_id].player_id \in db_players
          /\ db_stats' = [db_stats EXCEPT ![stats_id] =
                          [form EXCEPT !.player_id = db_stats[stats_id].player_id]]
    /\ ops' = ops + 1
    /\ UNCHANGED <<db_defense, db_history, arg_player, arg_game, arg_events, arg_stats,
                   prediction, prediction2, analytics,
                   db_players, current_user, deleted>>
    /\ UNCHANGED sweepVars
    /\ UNCHANGED windowVars

\* NFLDataCollector._estimate_game_date: the season's first Thursday (2024-09-05,
\* 2025-09-04) plus (week - 1) weeks
estimate_game_date(season, week) ==
    LET season_start == IF season = 2025 THEN 612 ELSE 248
    IN  season_start + (week - 1) * 7

\* the weekly rows the data source holds for a player and a season
LogSeasons == {2024}
LogWeeks == {<<>>, <<1>>, <<1, 2>>}

\* NFLDataCollector.get_player_game_log: one game per weekly row
get_player_game_log(player_id, season, weeks) ==
    [i \in DOMAIN weeks |-> StatRow(player_id, estimate_game_date(season, weeks[i]), 12, 50, 0)]

RECURSIVE FetchAll(_, _)
\* the import loop: a game is added unless a row of its (player, date) exists
FetchAll(rows, game_logs) ==
    IF game_logs = <<>> THEN rows
    ELSE LET game == Head(game_logs)
             existing == \E i \in DOMAIN rows : /\ rows[i].player_id = game.player_id
                                                /\ rows[i].game_date = game.game_date
         IN  FetchAll(IF existing THEN rows ELSE Append(rows, game), Tail(game_logs))

\* POST /api_fetch_stats/<player_id>
api_fetch_stats ==
    /\ ops < MaxOps
    /\ login_required /\ analyst_required
    /\ \E player_id \in FormPlayers, season \in LogSeasons, weeks \in LogWeeks :
          /\ player_id \in db_players
          /\ db_stats' = FetchAll(db_stats, get_player_game_log(player_id, season, weeks))
    /\ ops' = ops + 1
    /\ UNCHANGED <<db_defense, db_history, arg_player, arg_game, arg_events, arg_stats,
                   prediction, prediction2, analytics,
                   db_players, current_user, deleted>>
    /\ UNCHANGED sweepVars
    /\ UNCHANGED windowVars

(***************************************************************************)
(* Login, and the handlers that add and delete players, records and events *)
(***************************************************************************)
\* the roles of the registered users
Roles == {"admin", "analyst", "viewer"}

\* POST /login with the credentials of a registered user
login ==
    /\ ~is_authenticated
    /\ \E role \in Roles : current_user' = Some([role |-> role])
    /\ UNCHANGED <<db_stats, db_events, db_players, ops, deleted, prediction2, analytics>>
    /\ UNCHANGED projVars
    /\ UNCHANGED sweepRest
    /\ UNCHANGED windowVars

\* GET /logout
logout ==
    /\ login_required
    /\ current_user' = None
    /\ UNCHANGED <<db_stats, db_events, db_players, ops, deleted, prediction2, analytics>>
    /\ UNCHANGED projVars
    /\ UNCHANGED sweepRest
    /\ UNCHANGED windowVars

\* the id the database gives a new Player row: one more than the largest stored id
NewPlayerId ==
    IF db_players = {} THEN 1
    ELSE 1 + CHOOSE m \in db_players : \A q \in db_players : q <= m

\* POST /add_player
add_player ==
    /\ ops < MaxOps
    /\ login_required /\ analyst_required
    /\ db_players' = db_players \cup {NewPlayerId}
    /\ ops' = ops + 1
    /\ UNCHANGED <<db_stats, db_events, current_user, deleted, prediction2, analytics>>
    /\ UNCHANGED projVars
    /\ UNCHANGED sweepRest
    /\ UNCHANGED windowVars

\* the form values of add_life_event
FormEvents == {EventRow(p, "injury", 250) : p \in FormPlayers}

\* POST /add_life_event/<player_id>; 404 for a player that does not exist
add_life_event ==
    /\ ops < MaxOps
    /\ login_required /\ analyst_required
    /\ \E new_event \in FormEvents :
          /\ new_event.player_id \in db_players
          /\ db_events' = Append(db_events, new_event)
    /\ ops' = ops + 1
    /\ UNCHANGED <<db_stats, db_players, current_user, deleted, prediction2, analytics>>
    /\ UNCHANGED projVars
    /\ UNCHANGED sweepRest
    /\ UNCHANGED windowVars

RemoveAt(rows, i) == SubSeq(rows, 1, i - 1) \o SubSeq(rows, i + 1, Len(rows))

\* what a delete request did: the handler, the user that sent it, and the
\* numbers of Player, PlayerStats and LifeEvent rows it removed
DeleteOutcome(handler, players, stats, events) ==
    Some([handler |-> handler, user |-> current_user,
          players |-> players, stats |-> stats, events |-> events])

\* the redirect of login_required or admin_required: nothing is deleted
Redirected(handler) ==
    /\ deleted' = DeleteOutcome(handler, 0, 0, 0)
    /\ UNCHANGED <<db_stats, db_events, db_players, ops>>

\* POST /admin/change_role/<user_id> by an admin for the own account
change_user_role ==
    /\ login_required /\ admin_required
    /\ \E new_role \in Roles : current_user' = Some([role |-> new_role])
    /\ UNCHANGED <<db_stats, db_events, db_players, ops, deleted, prediction2, analytics>>
    /\ UNCHANGED projVars
    /\ UNCHANGED sweepRest
    /\ UNCHANGED windowVars

\* POST /delete_stats/<stats_id>; stats_id is the row's position in the table
delete_stats ==
    /\ \/ /\ ~(login_required /\ admin_required)
          /\ Redirected("delete_stats")
       \/ /\ login_required /\ admin_required
          /\ ops < MaxOps
          /\ \E stats_id \in DOMAIN db_stats : db_stats' = RemoveAt(db_stats, stats_id)
          /\ deleted' = DeleteOutcome("delete_stats", 0, 1, 0)
          /\ ops' = ops + 1
          /\ UNCHANGED <<db_events, db_players>>
    /\ UNCHANGED <<current_user, prediction2, analytics>>
    /\ UNCHANGED projVars
    /\ UNCHANGED sweepRest
    /\ UNCHANGED windowVars

\* POST /delete_life_event/<event_id>; event_id is the row's position in the table
delete_life_event ==
    /\ \/ /\ ~(login_required /\ admin_required)
          /\ Redirected("delete_life_event")
       \/ /\ login_required /\ admin_required
          /\ ops < MaxOps
          /\ \E event_id \in DOMAIN db_events : db_events' = RemoveAt(db_events, event_id)
          /\ deleted' = DeleteOutcome("delete_life_event", 0, 0, 1)
          /\ ops' = ops + 1
          /\ UNCHANGED <<db_stats, db_players>>
    /\ UNCHANGED <<current_user, prediction2, analytics>>
    /\ UNCHANGED projVars
    /\ UNCHANGED sweepRest
    /\ UNCHANGED windowVars

\* the rows of a table that belong to the player
RowsOf(rows, player_id) == SelectSeq(rows, LAMBDA r : r.player_id = player_id)
\* the table after the cascade has deleted the player's rows
RowsNotOf(rows, player_id) == SelectSeq(rows, LAMBDA r : r.player_id # player_id)

\* delete_player that deletes the Player row only
delete_player_no_cascade ==
    /\ \/ /\ ~(login_required /\ admin_required)
          /\ Redirected("delete_player")
       \/ /\ login_required /\ admin_required
          /\ ops < MaxOps
          /\ \E player_id \in db_players :
                /\ db_players' = db_players \ {player_id}
                /\ db_stats' = db_stats
                /\ db_events' = db_events
                /\ deleted' = DeleteOutcome("delete_player", 1, 0, 0)
          /\ ops' = ops + 1
    /\ UNCHANGED <<current_user, prediction2, analytics>>
    /\ UNCHANGED projVars
    /\ UNCHANGED sweepRest
    /\ UNCHANGED windowVars

\* delete_player without the admin_required decorator
delete_player_any_user ==
    /\ \/ /\ ~login_required
          /\ Redirected("delete_player")
       \/ /\ login_required
          /\ ops < MaxOps
          /\ \E player_id \in db_players :
                /\ db_players' = db_players \ {player_id}
                /\ db_stats' = RowsNotOf(db_stats, player_id)
                /\ db_events' = RowsNotOf(db_events, player_id)
                /\ deleted' = DeleteOutcome("delete_player", 1,
                                            Len(RowsOf(db_stats, player_id)),
                                            Len(RowsOf(db_events, player_id)))
          /\ ops' = ops + 1
    /\ UNCHANGED <<current_user, prediction2, analytics>>
    /\ UNCHANGED projVars
    /\ UNCHANGED sweepRest
    /\ UNCHANGED windowVars

\* POST /delete_player/<player_id>: the Player row and, by the cascade of its two
\* relationships, the player's PlayerStats and LifeEvent rows
delete_player ==
    /\ \/ /\ ~(login_required /\ admin_required)
          /\ Redirected("delete_player")
       \/ /\ login_required /\ admin_required
          /\ ops < MaxOps
          /\ \E player_id \in db_players :
                /\ db_players' = db_players \ {player_id}
                /\ db_stats' = RowsNotOf(db_stats, player_id)
                /\ db_events' = RowsNotOf(db_events, player_id)
                /\ deleted' = DeleteOutcome("delete_player", 1,
                                            Len(RowsOf(db_stats, player_id)),
                                            Len(RowsOf(db_events, player_id)))
          /\ ops' = ops + 1
    /\ UNCHANGED <<current_user, prediction2, analytics>>
    /\ UNCHANGED projVars
    /\ UNCHANGED sweepRest
    /\ UNCHANGED windowVars

\* ---- players, records and life events under the adding and deleting handlers,
\* ---- from a store without records and a browser that is not logged in
InitCrud ==
    /\ db_players \in {{}, {1}}
    /\ db_stats = <<>>
    /\ db_events = <<>>
    /\ current_user = None
    /\ ops = 0
    /\ deleted = None
    /\ prediction2 = None
    /\ analytics = None
    /\ db_correlation = <<>>
    /\ pc = "idle"
    /\ todo = <<>>
    /\ session_new = <<>>
    /\ calls = <<>>
    /\ db_up = TRUE
    /\ faults = 0
    /\ sweeps = 0
    /\ mark = 0
    /\ ServicesUp
    /\ ProjIdle
    /\ WindowIdle

NextCrud ==
    \/ login \/ logout \/ change_user_role
    \/ add_player \/ add_stats \/ add_life_event
    \/ delete_stats \/ delete_life_event \/ delete_player

SpecCrud == InitCrud /\ [][NextCrud]_vars

\* ---- the performance records under the three handlers that write them
InitStats ==
    /\ db_stats = <<>>
    /\ ProjIdle
    /\ SweepIdle
    /\ WindowIdle
    /\ WebIdle

NextStats == add_stats \/ edit_stats \/ api_fetch_stats

SpecStats == InitStats /\ [][NextStats]_vars

\* a caller applies calculate_matchup_prediction to the same arguments once more
ProjectAgain ==
    /\ prediction # None
    /\ prediction2 = None
    /\ prediction2' = Some(calculate_matchup_prediction(arg_player, arg_game, arg_events, arg_stats))
    /\ UNCHANGED <<ops, analytics, db_players, current_user, deleted>>
    /\ UNCHANGED <<db_stats>>
    /\ UNCHANGED projVars
    /\ UNCHANGED sweepVars
    /\ UNCHANGED windowVars

\* ---- two projections of the same arguments, the handlers serving requests between
InitRepeat ==
    /\ arg_player \in [id : {1}, position : {"WR", "RB"}]
    /\ arg_game \in [game_date : {300}, opponent : {"KC"}, week : {1}, season : {2024, 2025},
                     prop_receiving_yards : {None}, prop_rush_yards : {None}]
    /\ arg_events \in {<<>>, <<EventRow(1, "positive", 297)>>}
    /\ arg_stats \in {Uniform(5, StatRow(1, 280, 10, 60, 40))}
    /\ db_defense = <<>>
    /\ db_history = <<>>
    /\ db_stats = <<>>
    /\ prediction = None
    /\ SweepIdle
    /\ WindowIdle
    /\ WebIdle

NextRepeat == Project \/ add_team_defense \/ add_stats \/ ProjectAgain

SpecRepeat == InitRepeat /\ [][NextRepeat]_vars

\* ---- the projection at the edges of its input space: event dates around the
\* ---- 0..7 day window, event types beyond 'positive' and 'negative', a prop line
\* ---- of 0, records of negative yardage, the extreme ranks
EdgeEventRows == {EventRow(1, "positive", 300), EventRow(1, "injury", 293),
                  EventRow(1, "positive", 292), EventRow(1, "negative", 301)}
EdgeStats == {<<StatRow(1, 280, 10, 60, 40)>>, <<StatRow(1, 280, 0, -5, -5)>>,
              Uniform(5, StatRow(1, 280, 10, 60, 40))}
EdgeGames == [game_date : {300}, opponent : {"KC"}, week : {1}, season : {2024},
              prop_receiving_yards : {None, Some(0), Some(50), Some(70)},
              prop_rush_yards : {None, Some(30)}]
EdgeDefense == {<<>>, <<DefenseRow("KC", 2024, 1, 5, 30)>>,
                <<DefenseRow("KC", 2024, 1, 16, 16)>>, <<DefenseRow("KC", 2024, 1, 32, 1)>>}
HistoryRow(player_id, opponent_team, receiving_yards, rushing_yards) ==
    [player_id |-> player_id, opponent_team |-> opponent_team,
     receiving_yards |-> receiving_yards, rushing_yards |-> rushing_yards]
EdgeHistory == {<<>>, <<HistoryRow(1, "KC", 80, 10)>>, <<HistoryRow(1, "KC", 60, 40)>>}

InitEdge ==
    /\ arg_player \in [id : {1}, position : {"WR", "RB"}]
    /\ arg_game \in EdgeGames
    /\ arg_events \in SeqsUpTo(EdgeEventRows, MaxEvents)
    /\ arg_stats \in EdgeStats
    /\ db_defense \in EdgeDefense
    /\ db_history \in EdgeHistory
    /\ db_stats = <<>>
    /\ prediction = None
    /\ SweepIdle
    /\ WindowIdle
    /\ WebIdle

SpecEdge == InitEdge /\ [][NextProject]_vars

(***************************************************************************)
(* player_analytics (app/main.py): the per-event before/after comparison    *)
(* and the betting insights                                                 *)
(***************************************************************************)
\* round(x, 0) and round(x, 1) of a sum of tenths divided by a count
RoundUnits(x) == RoundTenths(Rat(x[1], 10 * x[2]))
TenthsOver(total, n) == RoundTenths(Rat(total, 10 * n))

\* query.filter_by(player_id).order_by(date).all(): a stable sort of the rows by keys
SortedBy(rows, keys) ==
    LET pos(i) == 1 + Cardinality({j \in DOMAIN rows :
                          keys[j] < keys[i] \/ (keys[j] = keys[i] /\ j < i)})
    IN  [k \in DOMAIN rows |-> rows[CHOOSE i \in DOMAIN rows : pos(i) = k]]

StatsByDate(player_id) ==
    LET rows == SelectSeq(db_stats, LAMBDA r : r.player_id = player_id)
    IN  SortedBy(rows, [i \in DOMAIN rows |-> rows[i].game_date])

\* the player's life events as they lie in the table, without the order_by
EventsInTableOrder(player_id) == SelectSeq(db_events, LAMBDA e : e.player_id = player_id)

EventsByDate(player_id) ==
    LET rows == SelectSeq(db_events, LAMBDA e : e.player_id = player_id)
    IN  SortedBy(rows, [i \in DOMAIN rows |-> rows[i].event_date])

\* the keys of before_avg and after_avg
avg_keys == {"fantasy_points", "receiving_yards", "receptions", "receiving_tds"}

\* sum(s.<key> for s in rows) / len(rows)
AvgOf(rows, key) == Rat(SumSeq([i \in DOMAIN rows |-> rows[i][key]]), Len(rows))

\* the changes dict of one event: one entry per key whose before average is > 0
Changes(recent_before, recent_after) ==
    [key \in {k \in avg_keys : RatLess(RatZero, AvgOf(recent_before, k))} |->
        LET b == AvgOf(recent_before, key)
            a == AvgOf(recent_after, key)
        IN  [before |-> RoundTenths(b),
             after |-> RoundTenths(a),
             change |-> RoundTenths(RatSub(a, b)),
             change_pct |-> RoundTenths(RatMul(RatDiv(RatSub(a, b), b), Rat(100, 1)))]]

\* EventAnalysis over the first 3 records before the event instead of the last 3
EventAnalysisFirstBefore(stats, life_events) ==
    LET before_stats(e) == SelectSeq(stats, LAMBDA r : r.game_date < e.event_date)
        after_stats(e) == SelectSeq(stats, LAMBDA r : r.game_date > e.event_date)
        analysed == SelectSeq(life_events, LAMBDA e :
                        Len(before_stats(e)) >= 3 /\ Len(after_stats(e)) >= 3)
    IN  [i \in DOMAIN analysed |->
            LET e == analysed[i]
                bs == before_stats(e)
                recent_before == SubSeq(bs, 1, 3)
                recent_after == SubSeq(after_stats(e), 1, 3)
            IN  [event |-> e,
                 changes |-> Changes(recent_before, recent_after),
                 improved |-> RatLess(AvgOf(recent_before, "fantasy_points"),
                                      AvgOf(recent_after, "fantasy_points"))]]

\* the event_analysis list: one entry per event with at least 3 records strictly
\* before and at least 3 strictly after it
EventAnalysis(stats, life_events) ==
    LET before_stats(e) == SelectSeq(stats, LAMBDA r : r.game_date < e.event_date)
        after_stats(e) == SelectSeq(stats, LAMBDA r : r.game_date > e.event_date)
        analysed == SelectSeq(life_events, LAMBDA e :
                        Len(before_stats(e)) >= 3 /\ Len(after_stats(e)) >= 3)
    IN  [i \in DOMAIN analysed |->
            LET e == analysed[i]
                bs == before_stats(e)
                recent_before == SubSeq(bs, Len(bs) - 2, Len(bs))
                recent_after == SubSeq(after_stats(e), 1, 3)
            IN  [event |-> e,
                 changes |-> Changes(recent_before, recent_after),
                 improved |-> RatLess(AvgOf(recent_before, "fantasy_points"),
                                      AvgOf(recent_after, "fantasy_points"))]]

\* e['changes']['fantasy_points'] of an entry that has no such key raises KeyError
InsightsRaise(event_analysis) ==
    \E i \in DOMAIN event_analysis :
        /\ event_analysis[i].event.event_type \in {"positive", "negative"}
        /\ "fantasy_points" \notin DOMAIN event_analysis[i].changes

\* the sum of changes[key].change over the given entries that have the key, in tenths
TotalChange(entries, key) ==
    SumSeq([i \in DOMAIN entries |->
               IF key \in DOMAIN entries[i].changes
               THEN entries[i].changes[key].change ELSE 0])

\* the betting_insights dict of a non-empty event_analysis that does not raise
BettingInsights(event_analysis) ==
    LET n == Len(event_analysis)
        positive_events == SelectSeq(event_analysis, LAMBDA e : e.event.event_type = "positive")
        negative_events == SelectSeq(event_analysis, LAMBDA e : e.event.event_type = "negative")
        improved == Cardinality({i \in DOMAIN event_analysis : event_analysis[i].improved})
    IN  [total_events |-> n,
         avg_fp_change |-> TenthsOver(TotalChange(event_analysis, "fantasy_points"), n),
         avg_yd_change |-> TenthsOver(TotalChange(event_analysis, "receiving_yards"), n),
         improved_pct |-> RoundUnits(Rat(improved * 100, n)),
         positive_events_count |-> Len(positive_events),
         negative_events_count |-> Len(negative_events),
         positive_avg_change |->
             IF positive_events # <<>>
             THEN TenthsOver(TotalChange(positive_events, "fantasy_points"), Len(positive_events))
             ELSE 0,
         negative_avg_change |->
             IF negative_events # <<>>
             THEN TenthsOver(TotalChange(negative_events, "fantasy_points"), Len(negative_events))
             ELSE 0]

\* near_event of one record: the first of life_events within 7 days of it, or None
NearEvent(stat, life_events) ==
    LET near == SelectSeq(life_events,
                          LAMBDA e : Abs(stat.game_date - e.event_date) <= 7)
    IN  IF near = <<>> THEN None
        ELSE Some([type |-> near[1].event_type,
                   days_away |-> Abs(stat.game_date - near[1].event_date)])

\* the recent_form list: one entry for each of the last five records
RecentForm(stats, life_events) ==
    LET recent_stats == IF Len(stats) >= 5 THEN SubSeq(stats, Len(stats) - 4, Len(stats))
                        ELSE stats
    IN  [k \in DOMAIN recent_stats |->
            [date |-> recent_stats[k].game_date,
             fantasy_points |-> recent_stats[k].fantasy_points,
             near_event |-> NearEvent(recent_stats[k], life_events),
             above_avg |-> RatLess(AvgOf(stats, "fantasy_points"),
                                   Rat(recent_stats[k].fantasy_points, 1))]]

\* what one GET /player_analytics/<player_id> does: the page's recent form, event
\* analysis and betting insights, or the KeyError that ends the request
PlayerAnalytics(player_id) ==
    LET stats == StatsByDate(player_id)
        life_events == EventsByDate(player_id)
        event_analysis == IF stats # <<>> THEN EventAnalysis(stats, life_events) ELSE <<>>
        recent_form == IF stats # <<>> THEN RecentForm(stats, life_events) ELSE <<>>
    IN  IF event_analysis # <<>> /\ InsightsRaise(event_analysis)
        THEN [outcome |-> "KeyError", event_analysis |-> event_analysis,
              recent_form |-> recent_form,
              betting_insights |-> None]
        ELSE [outcome |-> "rendered", event_analysis |-> event_analysis,
              recent_form |-> recent_form,
              betting_insights |-> IF event_analysis # <<>>
                                   THEN Some(BettingInsights(event_analysis)) ELSE None]

player_analytics ==
    /\ analytics = None
    /\ login_required
    /\ 1 \in db_players
    /\ analytics' = Some(PlayerAnalytics(1))
    /\ UNCHANGED <<db_stats, prediction2, ops, db_players, current_user, deleted>>
    /\ UNCHANGED projVars
    /\ UNCHANGED sweepVars
    /\ UNCHANGED windowVars

\* ---- the analytics page over bounded stored records and life events: up to 3
\* ---- records before day 4 and up to 3 after it, events on day 4 and day 0
AnalyticsRow(game_date, fantasy_points, receiving_yards) ==
    [player_id |-> 1, game_date |-> game_date, fantasy_points |-> fantasy_points,
     receiving_yards |-> receiving_yards, rushing_yards |-> 0,
     receptions |-> 4, receiving_tds |-> 0]
AnalyticsValues == {<<0, 0>>, <<0, 60>>, <<10, 60>>, <<15, 45>>}
AnalyticsStats ==
    {[i \in 1..nb |-> AnalyticsRow(i, b[1], b[2])]
        \o [i \in 1..na |-> AnalyticsRow(4 + i, a[1], a[2])] :
        nb \in 2..3, na \in 2..3, b \in AnalyticsValues, a \in AnalyticsValues}
AnalyticsEventRows == {EventRow(1, "positive", 4), EventRow(1, "negative", 4),
                       EventRow(1, "injury", 4), EventRow(1, "positive", 0)}

InitAnalytics ==
    /\ db_stats \in AnalyticsStats
    /\ db_events \in SeqsUpTo(AnalyticsEventRows, MaxEvents)
    /\ db_correlation = <<>>
    /\ pc = "idle"
    /\ todo = <<>>
    /\ session_new = <<>>
    /\ calls = <<>>
    /\ db_up = TRUE
    /\ faults = 0
    /\ sweeps = 0
    /\ mark = 0
    /\ ServicesUp
    /\ ProjIdle
    /\ WindowIdle
    /\ WebIdle

NextAnalytics == player_analytics

SpecAnalytics == InitAnalytics /\ [][NextAnalytics]_vars

\* ---- the analytics page over up to MaxGames records ten days apart, stored in
\* ---- date order or against it, and life events between and on record dates
MaxGames == 8        \* most PlayerStats rows of the player of the analytics page
FormProfiles == {"up", "down", "flat", "ends"}
FormPoints(profile, i) ==
    CASE profile = "up" -> i
      [] profile = "down" -> 10 - i
      [] profile = "flat" -> 5
      [] OTHER -> IF i = 1 \/ i = MaxGames THEN 9 ELSE 2
FormGame(profile, i) == AnalyticsRow(10 * i, FormPoints(profile, i), 60)
FormGames ==
    {[i \in 1..n |-> FormGame(profile, i)] : n \in 1..MaxGames, profile \in FormProfiles}
    \cup {[i \in 1..n |-> FormGame(profile, n + 1 - i)] :
              n \in 1..MaxGames, profile \in FormProfiles}
FormEventRows == {EventRow(1, "injury", 35), EventRow(1, "positive", 42),
                  EventRow(1, "negative", 45), EventRow(1, "injury", 30),
                  EventRow(1, "positive", 200), EventRow(2, "injury", 41)}

InitForm ==
    /\ db_stats \in FormGames
    /\ db_events \in SeqsUpTo(FormEventRows, MaxEvents)
    /\ db_correlation = <<>>
    /\ pc = "idle"
    /\ todo = <<>>
    /\ session_new = <<>>
    /\ calls = <<>>
    /\ db_up = TRUE
    /\ faults = 0
    /\ sweeps = 0
    /\ mark = 0
    /\ ServicesUp
    /\ ProjIdle
    /\ WindowIdle
    /\ WebIdle

SpecForm == InitForm /\ [][NextAnalytics]_vars

(***************************************************************************)
(* Properties of the matchup projection (SpecProject)                      *)
(***************************************************************************)
Projected == prediction # None
P == prediction[1]

\* C1 (as claimed): a STRONG OVER or STRONG UNDER recommendation comes with a
\* returned confidence of at least 60.
C1_StrongHasConfidence60 ==
    Projected /\ P.recommendation \in {"STRONG OVER", "STRONG UNDER"}
        => P.confidence >= 60

\* The case of C2: a pass catcher, 10 records averaging 60 receiving yards, exactly
\* one life event, positive and 3 days before the game, a defense profile of pass
\* rank 5 for the game's (opponent, season, week), no history, stored records of
\* the game's season, no prop line.
C2_Case ==
    /\ arg_player.position \in PassCatching
    /\ Len(arg_stats) = 10
    /\ SumSeq([i \in DOMAIN arg_stats |-> arg_stats[i].receiving_yards]) = 600
    /\ Len(arg_events) = 1
    /\ arg_events[1].event_type = "positive"
    /\ arg_game.game_date - arg_events[1].event_date = 3
    /\ \E i \in DOMAIN db_defense :
          /\ db_defense[i].team_abbr = arg_game.opponent
          /\ db_defense[i].season = arg_game.season
          /\ db_defense[i].week = arg_game.week
    /\ \A i \in DOMAIN db_defense : db_defense[i].pass_defense_rank = 5
    /\ \A i \in DOMAIN db_history : db_history[i].player_id # arg_player.id
    /\ \A i \in DOMAIN db_stats : Year(db_stats[i].game_date) = arg_game.season
    /\ arg_game.prop_receiving_yards = None
    /\ arg_game.prop_rush_yards = None

C2_Amounts ==
    /\ P.base_projection = <<60, 1>>
    /\ P.event_adjustment = <<36, 5>>            \* 7.2
    /\ P.opponent_adjustment = <<-66, 5>>        \* -13.2
    /\ P.final_projection = 540                  \* 54.0, in tenths
    /\ P.recommendation = "HOLD"

\* C2 (as claimed): in the case of C2 the projection is base 60, event adjustment
\* 7.2, opponent adjustment -13.2, final 54.0, recommendation HOLD and confidence 60.
C2_ExampleConfidence60 ==
    Projected /\ C2_Case => C2_Amounts /\ P.confidence = 60

\* C2 (amended): in the case of C2 the projection is base 60, event adjustment 7.2,
\* opponent adjustment -13.2, final 54.0, recommendation HOLD and confidence 80:
\* 25 for the event, 35 for the defense profile and 20 for the 10 records.
C2_ExampleConfidence80 ==
    Projected /\ C2_Case => C2_Amounts /\ P.confidence = 80

C2_Witness == Projected /\ C2_Case

\* C3: a projection over an empty stats argument is all zero, HOLD, without
\* factors, whatever events, defense profile, history and prop line there are.
C3_EmptyStatsAllZero ==
    Projected /\ arg_stats = <<>> =>
        /\ P.base_projection = <<0, 1>>
        /\ P.event_adjustment = <<0, 1>>
        /\ P.opponent_adjustment = <<0, 1>>
        /\ P.final_projection = 0
        /\ P.confidence = 0
        /\ P.recommendation = "HOLD"
        /\ P.factors = <<>>

C3_Witness ==
    /\ Projected
    /\ arg_stats = <<>>
    /\ RecentEvents(arg_game, arg_events) # <<>>
    /\ DefenseLookup(arg_game) # None
    /\ HistoryLookup(arg_player, arg_game) # <<>>
    /\ arg_game.prop_receiving_yards # None
    /\ CrossSeason(arg_player, arg_game)

(***************************************************************************)
(* Properties of the analytics service (Spec)                              *)
(***************************************************************************)
Count(S) == Cardinality(S)

\* the stored events of a pair whose 30-day before (after) window holds a record
EventsWithBefore(player_id, event_type) ==
    {i \in DOMAIN db_events :
        /\ db_events[i].player_id = player_id
        /\ db_events[i].event_type = event_type
        /\ \E j \in DOMAIN db_stats :
              /\ db_stats[j].player_id = player_id
              /\ db_events[i].event_date - 30 <= db_stats[j].game_date
              /\ db_stats[j].game_date < db_events[i].event_date}

EventsWithAfter(player_id, event_type) ==
    {i \in DOMAIN db_events :
        /\ db_events[i].player_id = player_id
        /\ db_events[i].event_type = event_type
        /\ \E j \in DOMAIN db_stats :
              /\ db_stats[j].player_id = player_id
              /\ db_events[i].event_date < db_stats[j].game_date
              /\ db_stats[j].game_date <= db_events[i].event_date + 30}

\* C4: a call returns a result only if at least 3 events of the pair have a
\* non-empty before window and at least 3 a non-empty after window; the sample
\* size of a result is their sum, at least 6, and both means are over non-empty lists.
C4_ResultNeedsThreePlusThree ==
    \A k \in DOMAIN calls :
        LET c == calls[k]
            nb == Count(EventsWithBefore(c.player_id, c.event_type))
            na == Count(EventsWithAfter(c.player_id, c.event_type))
        IN  /\ (nb < 3 \/ na < 3) => c.returned = None
            /\ c.returned # None =>
                  /\ c.returned[1].sample_size = nb + na
                  /\ c.returned[1].sample_size >= 6
                  /\ c.returned[1].mean_before[2] > 0
                  /\ c.returned[1].mean_after[2] > 0

C4_Witness ==
    /\ \E k \in DOMAIN calls : calls[k].returned # None
    /\ \E k \in DOMAIN calls : calls[k].path = "insufficient"

\* a sweep that ran its loops to the end and committed, or rolled back at the commit
SweepCommitted == pc = "committed"
SweepOver == pc \in {"committed", "rolled_back"} /\ calls # <<>>

CallsOf(player_id, event_type) ==
    {k \in DOMAIN calls :
        calls[k].player_id = player_id /\ calls[k].event_type = event_type}

\* C5 (as claimed): a completed sweep has called the analyzer exactly once for
\* every (player, event type) of a stored life event.
C5_EveryStoredPairAnalysedOnce ==
    SweepCommitted =>
        \A i \in DOMAIN db_events :
            Count(CallsOf(db_events[i].player_id, db_events[i].event_type)) = 1

\* the calls of the sweep that returned a result, and the rows the sweep persisted
Results == SelectSeq(calls, LAMBDA c : c.returned # None)
SweepRows == SubSeq(db_correlation, mark + 1, Len(db_correlation))

RowsMatchResults ==
    /\ Len(SweepRows) = Len(Results)
    /\ \A i \in DOMAIN Results :
          /\ SweepRows[i].player_id = Results[i].player_id
          /\ SweepRows[i].event_type = Results[i].event_type
          /\ SweepRows[i].sample_size = Results[i].returned[1].sample_size

\* C6 (as claimed): a sweep that is over has persisted exactly one row per
\* analysis that returned a result, and none for the others.
C6_OneRowPerResult == SweepOver => RowsMatchResults

\* C6 (amended): a sweep whose commit succeeds has persisted exactly one row per
\* analysis that returned a result and none for the others; a sweep whose commit
\* raises is rolled back and has persisted no row.
C6_OneRowPerResultIfCommitted ==
    /\ SweepCommitted => RowsMatchResults
    /\ pc = "rolled_back" => SweepRows = <<>>

C6_Witness ==
    /\ SweepCommitted
    /\ Results # <<>>
    /\ \E k \in DOMAIN calls : calls[k].path = "insufficient"
    /\ \E k \in DOMAIN calls : calls[k].path = "no_events"

\* C7: no step updates or deletes a committed row, and a commit appends one row
\* per row of the session, also for a pair that already has rows.
C7_RowsOnlyAppended ==
    [][/\ Len(db_correlation') >= Len(db_correlation)
       /\ \A i \in DOMAIN db_correlation : db_correlation'[i] = db_correlation[i]
       /\ (pc = "analysing" /\ pc' = "committed") =>
              Len(db_correlation') = Len(db_correlation) + Len(session_new)]_vars

C7_Witness ==
    \E i \in DOMAIN db_correlation : \E j \in DOMAIN db_correlation :
        /\ i < j
        /\ db_correlation[i].player_id = db_correlation[j].player_id
        /\ db_correlation[i].event_type = db_correlation[j].event_type
        /\ db_correlation[i].analysis_date < db_correlation[j].analysis_date

AnyFailed == \E k \in DOMAIN calls : calls[k].path = "error"

\* every pair of the nested loops has been analysed exactly once
AllPairsAnalysed ==
    /\ Len(calls) = Len(event_types) * Len(PlayersWithEvents)
    /\ \A p \in DOMAIN PlayersWithEvents : \A t \in DOMAIN event_types :
          Count(CallsOf(PlayersWithEvents[p], event_types[t])) = 1

\* C8 (as claimed): a sweep in which an analysis failed has still analysed every
\* pair and persisted the rows of the analyses that succeeded.
C8_FailureKeepsSweep ==
    SweepOver /\ AnyFailed => AllPairsAnalysed /\ RowsMatchResults

\* C8 (amended): a sweep in which an analysis failed has still analysed every
\* pair, and when its commit succeeds it has persisted the rows of the analyses
\* that succeeded.
C8_FailureKeepsSweepIfCommitted ==
    SweepOver /\ AnyFailed =>
        /\ AllPairsAnalysed
        /\ SweepCommitted => RowsMatchResults

C8_Witness == SweepCommitted /\ AnyFailed /\ Results # <<>>

\* C9 (as claimed): a call that failed returns something else than the None of
\* the no-events and insufficient-data outcomes.
C9_FailureDistinctFromNoResult ==
    \A k \in DOMAIN calls : calls[k].path = "error" => calls[k].returned # None

(***************************************************************************)
(* Properties of the window queries (SpecWindow)                           *)
(***************************************************************************)
Occurrences(seq, r) == Cardinality({i \in DOMAIN seq : seq[i] = r})

\* C10: the before set is exactly player 1's records dated in
\* [event_date - days_before, event_date), the after set exactly those dated in
\* (event_date, event_date + days_after]; no record is in both, and a record of
\* the event date is in neither.
C10_WindowsExact ==
    w_windows # None =>
        \A r \in WindowRows :
            LET in_before == /\ r.player_id = 1
                             /\ w_event_date - w_days_before <= r.game_date
                             /\ r.game_date < w_event_date
                in_after == /\ r.player_id = 1
                            /\ w_event_date < r.game_date
                            /\ r.game_date <= w_event_date + w_days_after
                nb == Occurrences(w_windows[1].before, r)
                na == Occurrences(w_windows[1].after, r)
            IN  /\ nb = IF in_before THEN Occurrences(db_stats, r) ELSE 0
                /\ na = IF in_after THEN Occurrences(db_stats, r) ELSE 0
                /\ nb = 0 \/ na = 0
                /\ r.game_date = w_event_date => nb = 0 /\ na = 0

C10_Witness ==
    /\ w_windows # None
    /\ w_windows[1].before # <<>>
    /\ w_windows[1].after # <<>>
    /\ Len(w_windows[1].before) + Len(w_windows[1].after) < Len(db_stats)
    /\ \E i \in DOMAIN db_stats :
          db_stats[i].player_id = 1 /\ db_stats[i].game_date = w_event_date

(***************************************************************************)
(* Properties of repeated projections (SpecRepeat)                         *)
(***************************************************************************)
\* C11 (as claimed): two invocations of calculate_matchup_prediction with
\* identical arguments return identical projections, also when stored defense
\* profiles or stored performance records change between the two invocations.
C11_SameArgumentsSameProjection ==
    prediction # None /\ prediction2 # None => prediction2 = prediction

(***************************************************************************)
(* Properties of the projection at the edges of its inputs (SpecEdge)      *)
(***************************************************************************)
\* the opponent adjustment of the projected base for a pass-defense rank r
AdjustmentAt(r) == OpponentAdjustment(P.base_projection, r)

RECURSIVE AdjustmentsUpTo(_)
\* the adjustments of the ranks 1..n
AdjustmentsUpTo(n) ==
    IF n = 0 THEN <<>> ELSE Append(AdjustmentsUpTo(n - 1), AdjustmentAt(n))

\* the projection of a pass catcher whose game has a stored defense profile
C12_Case ==
    /\ Projected
    /\ arg_stats # <<>>
    /\ arg_player.position \in PassCatching
    /\ DefenseLookup(arg_game) # None

C12_Monotone ==
    LET adj == AdjustmentsUpTo(32)
    IN  \A r1 \in 1..32 : \A r2 \in (r1 + 1)..32 : ~RatLess(adj[r2], adj[r1])

C12_AdjustmentOfProfile ==
    /\ P.opponent_adjustment = AdjustmentAt(DefenseLookup(arg_game)[1].pass_defense_rank)
    /\ AdjustmentAt(16) = RatZero

\* C12 (as claimed): for a pass catcher and any fixed records, the opponent
\* adjustment never gets smaller as the pass-defense rank grows over 1..32, and
\* rank 16 gives adjustment 0.
C12_HigherRankNeverSmaller ==
    C12_Case => C12_AdjustmentOfProfile /\ C12_Monotone

\* C12 (amended): for a pass catcher whose records average at least 0 receiving
\* yards the opponent adjustment never gets smaller as the pass-defense rank grows
\* over 1..32; for records of negative average it never gets larger; rank 16
\* gives adjustment 0 in both cases.
C12_HigherRankNeverSmallerIfBaseNonNegative ==
    C12_Case =>
        /\ C12_AdjustmentOfProfile
        /\ P.base_projection[1] >= 0 => C12_Monotone
        /\ P.base_projection[1] < 0 =>
              LET adj == AdjustmentsUpTo(32)
              IN  \A r1 \in 1..32 : \A r2 \in (r1 + 1)..32 :
                      ~RatLess(adj[r1], adj[r2])

C12_Witness ==
    /\ C12_Case
    /\ P.base_projection[1] > 0
    /\ DefenseLookup(arg_game)[1].pass_defense_rank = 32
    /\ RatLess(RatZero, P.opponent_adjustment)

(***************************************************************************)
(* Properties of the stored defense profiles (SpecDefense)                 *)
(***************************************************************************)
\* the stored profiles of one (season, week)
ProfilesOf(season, week) ==
    {i \in DOMAIN db_defense : db_defense[i].season = season /\ db_defense[i].week = week}

\* C13 (as claimed): after any sequence of add_team_defense and
\* import_team_defense requests, the pass-defense ranks of the profiles stored
\* for one (season, week) are a permutation of 1..N, N the number of these
\* profiles, and so are their rush-defense ranks.
C13_RanksArePermutation ==
    \A season \in FormSeasons : \A week \in FormWeeks :
        LET rows == ProfilesOf(season, week)
            N == Cardinality(rows)
        IN  /\ {db_defense[i].pass_defense_rank : i \in rows} = 1..N
            /\ {db_defense[i].rush_defense_rank : i \in rows} = 1..N

(***************************************************************************)
(* Properties of the stored performance records (SpecStats)                *)
(***************************************************************************)
\* C14 (as claimed): after any sequence of add_stats, edit_stats and
\* api_fetch_stats requests the table holds at most one PlayerStats row per
\* (player, game date).
C14_OneRecordPerPlayerAndDate ==
    \A i \in DOMAIN db_stats : \A j \in DOMAIN db_stats :
        (/\ db_stats[i].player_id = db_stats[j].player_id
         /\ db_stats[i].game_date = db_stats[j].game_date) => i = j

(***************************************************************************)
(* Properties of the analytics page (SpecAnalytics)                        *)
(***************************************************************************)
\* C15 (as claimed): player_analytics completes without a runtime fault for
\* every stored stats and life events; a before average of 0 gives the field a
\* change entry of 0 percent, and the betting insights of a non-empty event
\* analysis are computed.
C15_NoFaultOnZeroBaseline ==
    analytics # None =>
        LET A == analytics[1]
        IN  /\ A.outcome = "rendered"
            /\ A.event_analysis # <<>> => A.betting_insights # None
            /\ \A i \in DOMAIN A.event_analysis : \A key \in avg_keys :
                  /\ key \in DOMAIN A.event_analysis[i].changes
                  /\ A.event_analysis[i].changes[key].before = 0
                        => A.event_analysis[i].changes[key].change_pct = 0

(***************************************************************************)
(* Further properties of the matchup projection (SpecProject)              *)
(***************************************************************************)
\* the four components of the confidence, read off the arguments and the store
C16_EventComponent ==
    IF \E i \in DOMAIN arg_events :
          /\ arg_game.game_date - arg_events[i].event_date >= 0
          /\ arg_game.game_date - arg_events[i].event_date <= 7
    THEN 25 ELSE 0

C16_DefenseComponent ==
    IF \E i \in DOMAIN db_defense :
          /\ db_defense[i].team_abbr = arg_game.opponent
          /\ db_defense[i].season = arg_game.season
          /\ db_defense[i].week = arg_game.week
    THEN 35 ELSE 0

C16_HistoryComponent ==
    IF \E i \in DOMAIN db_history :
          /\ db_history[i].player_id = arg_player.id
          /\ db_history[i].opponent_team = arg_game.opponent
    THEN 20 ELSE 0

C16_RecordsComponent == IF Len(arg_stats) >= 5 THEN 20 ELSE 0

\* the player has records, and all of them, passed and stored, are of the game's season
C16_RecordsOfGameSeason ==
    /\ arg_stats # <<>>
    /\ \A i \in DOMAIN arg_stats : Year(arg_stats[i].game_date) = arg_game.season
    /\ \A i \in DOMAIN db_stats :
          db_stats[i].player_id = arg_player.id
              => Year(db_stats[i].game_date) = arg_game.season

\* C16: the returned confidence is an integer in 0..100, and when the game's
\* season is the season of the player's records it is the sum of the applicable
\* components: 25 for a life event 0..7 days before the game, 35 for a defense
\* profile found, 20 for head-to-head history, 20 for at least 5 records.
C16_ConfidenceIsComponentSum ==
    Projected =>
        /\ P.confidence \in 0..100
        /\ C16_RecordsOfGameSeason =>
              P.confidence = C16_EventComponent + C16_DefenseComponent
                             + C16_HistoryComponent + C16_RecordsComponent

C16_Witness ==
    /\ Projected
    /\ C16_RecordsOfGameSeason
    /\ db_stats # <<>>
    /\ P.confidence = 100

(***************************************************************************)
(* Properties of the event adjustment and the recommendation (SpecEdge)    *)
(***************************************************************************)
\* the hundredths a life event contributes: +12 or -8 when it is dated 0 to 7
\* days before the game, nothing otherwise
C17_Contribution(e) ==
    LET days == arg_game.game_date - e.event_date
    IN  IF days < 0 \/ days > 7 THEN 0
        ELSE IF e.event_type = "positive" THEN 12 ELSE -8

C17_Impact == SumSeq([i \in DOMAIN arg_events |-> C17_Contribution(arg_events[i])])

\* C17: the event adjustment is the base projection times the sum, over the life
\* events dated 0 to 7 days (both inclusive) before the game, of +0.12 for the
\* type 'positive' and -0.08 for any other type; events after the game or more
\* than 7 days before it contribute nothing.
C17_EventAdjustmentIsBaseTimesImpact ==
    Projected =>
        P.event_adjustment
            = Rat(P.base_projection[1] * C17_Impact, P.base_projection[2] * 100)

C17_Witness ==
    /\ Projected
    /\ P.base_projection[1] > 0
    /\ \E i \in DOMAIN arg_events :
          /\ arg_game.game_date - arg_events[i].event_date = 7
          /\ arg_events[i].event_type \notin {"positive", "negative"}
    /\ \E i \in DOMAIN arg_events :
          arg_game.game_date - arg_events[i].event_date \in {-1, 8}
    /\ RatLess(P.event_adjustment, RatZero)

\* the prop line of the field the player's position selects
C18_PropLine ==
    IF arg_player.position \in PassCatching
    THEN arg_game.prop_receiving_yards ELSE arg_game.prop_rush_yards

\* C18 (as claimed), for a projection over at least one record: the
\* recommendation differs from HOLD only if the game carries the prop line of
\* the position's field, and with that prop line present, whatever its value,
\* it is an OVER variant if final_projection - prop_line >= 4, an UNDER variant
\* if it is <= -4, and HOLD otherwise.
C18_RecommendationFollowsPropLine ==
    Projected /\ arg_stats # <<>> =>
        /\ P.recommendation # "HOLD" => C18_PropLine # None
        /\ C18_PropLine # None =>
              LET diff == P.final_projection - 10 * C18_PropLine[1]
              IN  P.recommendation \in
                      IF diff >= 40 THEN {"STRONG OVER", "LEAN OVER"}
                      ELSE IF diff <= -40 THEN {"STRONG UNDER", "LEAN UNDER"}
                      ELSE {"HOLD"}

\* the amounts of the projection computed from the records, the life events and
\* the defense profile alone
C19_Base ==
    LET yards == [i \in DOMAIN arg_stats |->
                     IF arg_player.position \in PassCatching
                     THEN arg_stats[i].receiving_yards ELSE arg_stats[i].rushing_yards]
    IN  Rat(SumSeq(yards), Len(arg_stats))

C19_EventAdjustment == Rat(C19_Base[1] * C17_Impact, C19_Base[2] * 100)

C19_OpponentAdjustment ==
    LET profiles == SelectSeq(db_defense, LAMBDA r :
                        /\ r.team_abbr = arg_game.opponent
                        /\ r.season = arg_game.season
                        /\ r.week = arg_game.week)
        rank == IF arg_player.position \in PassCatching
                THEN profiles[1].pass_defense_rank ELSE profiles[1].rush_defense_rank
    IN  IF profiles = <<>> THEN RatZero
        ELSE Rat(C19_Base[1] * (rank - 16) * 2, C19_Base[2] * 100)

C19_AmountsWithoutHistory ==
    /\ P.base_projection = C19_Base
    /\ P.event_adjustment = C19_EventAdjustment
    /\ P.opponent_adjustment = C19_OpponentAdjustment
    /\ P.final_projection
           = RoundTenths(RatAdd(RatAdd(C19_Base, C19_EventAdjustment), C19_OpponentAdjustment))

\* the confidence the same call has when no head-to-head record is stored
C19_ConfidenceWithoutHistory ==
    C16_EventComponent + C16_DefenseComponent + C16_RecordsComponent

C20_UnequalLengthsGiveZero ==
    \A k \in DOMAIN calls :
        LET c == calls[k]
            nb == Count(EventsWithBefore(c.player_id, c.event_type))
            na == Count(EventsWithAfter(c.player_id, c.event_type))
        IN  c.returned # None /\ nb # na
                => c.returned[1].correlation_coefficient = CorrelationZero

C20_Witness ==
    \E k \in DOMAIN calls :
        /\ calls[k].returned # None
        /\ Count(EventsWithBefore(calls[k].player_id, calls[k].event_type))
               # Count(EventsWithAfter(calls[k].player_id, calls[k].event_type))

\* C21 (as claimed): the correlation coefficient of every returned result is a
\* number in [-1, 1], also when the before values or the after values are all equal.
C21_CoefficientInUnitInterval ==
    \A k \in DOMAIN calls :
        calls[k].returned # None =>
            LET r == calls[k].returned[1].correlation_coefficient
            IN  /\ ~r.nan
                /\ ~RatLess(Rat(1, 1), r.square)

(***************************************************************************)
(* Properties of the adding and deleting handlers (SpecCrud)               *)
(***************************************************************************)
\* C22: after any sequence of add_player, add_stats, add_life_event,
\* delete_stats, delete_life_event and delete_player requests every stored
\* PlayerStats row and LifeEvent row refers to a stored player; a delete_player
\* removes the player's records and life events with the player.
C22_RowsReferToStoredPlayers ==
    /\ \A i \in DOMAIN db_stats : db_stats[i].player_id \in db_players
    /\ \A i \in DOMAIN db_events : db_events[i].player_id \in db_players

C22_Witness ==
    /\ deleted # None
    /\ deleted[1].handler = "delete_player"
    /\ deleted[1].stats >= 1
    /\ deleted[1].events >= 1
    /\ db_players = {}

\* whether the user that sends the request is logged in with role admin
C30_Admin == current_user # None /\ current_user[1].role = "admin"

C30_DeleteRequest == delete_player \/ delete_stats \/ delete_life_event

\* C30: a delete_player, delete_stats or delete_life_event request of a user
\* that is not logged in, or is logged in as analyst or viewer, leaves players,
\* records and life events as they are; rows leave the three tables only in
\* the step of a user logged in with role admin.
C30_OnlyAdminDeletes ==
    [][/\ (C30_DeleteRequest /\ ~C30_Admin) => UNCHANGED <<db_players, db_stats, db_events>>
       /\ (\/ ~(db_players \subseteq db_players')
           \/ Len(db_stats') < Len(db_stats)
           \/ Len(db_events') < Len(db_events)) => C30_Admin]_vars

\* an analyst's delete_player request was turned away with records and events stored
C30_Witness ==
    /\ deleted # None
    /\ deleted[1].handler = "delete_player"
    /\ deleted[1].user = Some([role |-> "analyst"])
    /\ deleted[1].players = 0
    /\ db_players # {}
    /\ db_stats # <<>>
    /\ db_events # <<>>

(***************************************************************************)
(* The cross-season scaling of the confidence (SpecProject)                *)
(***************************************************************************)
\* the player's stored records, when there are some and all are of one year
C23_Stored == StoredStats(arg_player)
C23_OneSeason ==
    /\ C23_Stored # <<>>
    /\ \A i \in DOMAIN C23_Stored :
          Year(C23_Stored[i].game_date) = Year(C23_Stored[1].game_date)
C23_RecordSeason == Year(C23_Stored[1].game_date)

C23_ComponentSum ==
    C16_EventComponent + C16_DefenseComponent + C16_HistoryComponent + C16_RecordsComponent

C23_Warnings == Len(SelectSeq(P.factors, LAMBDA f : f.kind = "cross_season"))

\* C23: for a projection over records, with the player's stored records all of
\* one season: when the game's season differs from it, the confidence is the
\* component sum times 0.85 truncated to an integer and the factors hold one
\* cross-season warning, the last of them; when the seasons are equal, the
\* confidence is the component sum and the factors hold no warning.
C23_CrossSeasonScaling ==
    (Projected /\ arg_stats # <<>> /\ C23_OneSeason) =>
        IF arg_game.season # C23_RecordSeason
        THEN /\ 100 * P.confidence <= 85 * C23_ComponentSum
             /\ 85 * C23_ComponentSum < 100 * (P.confidence + 1)
             /\ C23_Warnings = 1
             /\ P.factors[Len(P.factors)].kind = "cross_season"
        ELSE /\ P.confidence = C23_ComponentSum
             /\ C23_Warnings = 0

\* a scaled confidence that truncation and rounding tell apart: 35 gives 29
C23_Witness ==
    /\ Projected
    /\ arg_stats # <<>>
    /\ C23_OneSeason
    /\ arg_game.season # C23_RecordSeason
    /\ C23_ComponentSum = 35
    /\ P.confidence = 29
    /\ C23_Warnings = 1

(***************************************************************************)
(* Properties of the analytics page (SpecForm)                             *)
(***************************************************************************)
C24_Form == analytics[1].recent_form
C24_Games == {i \in DOMAIN db_stats : db_stats[i].player_id = 1}
C24_Events == {i \in DOMAIN db_events : db_events[i].player_id = 1}
C24_Within(date) ==
    {i \in C24_Events : Abs(date - db_events[i].event_date) <= 7}
C24_Annotation(i, date) ==
    Some([type |-> db_events[i].event_type,
          days_away |-> Abs(date - db_events[i].event_date)])

\* the entries are the last min(5, n) of the player's n records by date
C24_LastFive ==
    /\ Len(C24_Form) = (IF Cardinality(C24_Games) < 5 THEN Cardinality(C24_Games) ELSE 5)
    /\ \A k \in DOMAIN C24_Form : \A l \in DOMAIN C24_Form :
          k < l => C24_Form[k].date < C24_Form[l].date
    /\ \A k \in DOMAIN C24_Form : \E i \in C24_Games :
          /\ db_stats[i].game_date = C24_Form[k].date
          /\ db_stats[i].fantasy_points = C24_Form[k].fantasy_points
    /\ \A i \in C24_Games :
          \/ \E k \in DOMAIN C24_Form : C24_Form[k].date = db_stats[i].game_date
          \/ db_stats[i].game_date < C24_Form[1].date

\* C24 (as claimed): recent form is the chronologically last min(5, n) of the
\* player's n records, each annotated with the first life event in the order
\* in which the events are stored whose date is within 7 days of the record's
\* date, or with no event when none is within 7 days.
C24_FirstInStoredOrder ==
    analytics # None =>
        /\ C24_LastFive
        /\ \A k \in DOMAIN C24_Form :
              LET within == C24_Within(C24_Form[k].date)
              IN  IF within = {} THEN C24_Form[k].near_event = None
                  ELSE \E i \in within :
                          /\ \A j \in within : i <= j
                          /\ C24_Form[k].near_event = C24_Annotation(i, C24_Form[k].date)

\* C24: recent form is the chronologically last min(5, n) of the player's n
\* records, each annotated with the life event of the earliest date among the
\* player's events within 7 days of the record's date, also when an event of
\* a later date is closer, or with no event when none is within 7 days.
C24_FirstInDateOrder ==
    analytics # None =>
        /\ C24_LastFive
        /\ \A k \in DOMAIN C24_Form :
              LET within == C24_Within(C24_Form[k].date)
              IN  IF within = {} THEN C24_Form[k].near_event = None
                  ELSE \E i \in within :
                          /\ \A j \in within :
                                db_events[i].event_date <= db_events[j].event_date
                          /\ C24_Form[k].near_event = C24_Annotation(i, C24_Form[k].date)

\* eight records; the record of day 40 is annotated with the event of day 35,
\* five days away, although the event of day 42 is closer and stored first
C24_Witness ==
    /\ analytics # None
    /\ Cardinality(C24_Games) = 8
    /\ db_events = <<EventRow(1, "positive", 42), EventRow(1, "injury", 35)>>
    /\ Len(C24_Form) = 5
    /\ C24_Form[1].date = 40
    /\ C24_Form[1].near_event = Some([type |-> "injury", days_away |-> 5])
    /\ C24_Form[5].near_event = None

\* the player's records strictly before and strictly after a date
C25_Before(date) == {i \in C24_Games : db_stats[i].game_date < date}
C25_After(date) == {i \in C24_Games : db_stats[i].game_date > date}
C25_Compared(date) == Cardinality(C25_Before(date)) >= 3 /\ Cardinality(C25_After(date)) >= 3
\* the 3 records of a side that are closest to the event
C25_LastThree(side) ==
    {i \in side : Cardinality({j \in side :
                      db_stats[j].game_date > db_stats[i].game_date}) < 3}
C25_FirstThree(side) ==
    {i \in side : Cardinality({j \in side :
                      db_stats[j].game_date < db_stats[i].game_date}) < 3}
RECURSIVE C25_Points(_)
C25_Points(S) ==
    IF S = {} THEN 0
    ELSE LET i == CHOOSE i \in S : TRUE
         IN  db_stats[i].fantasy_points + C25_Points(S \ {i})
C25_Analysis == analytics[1].event_analysis
C25_Entries(e) == {k \in DOMAIN C25_Analysis : C25_Analysis[k].event = e}
C25_Rows(e) == {i \in C24_Events : db_events[i] = e}

\* C25: the page holds a before/after comparison for a life event of the
\* player exactly when at least 3 of the player's records are dated strictly
\* before it and at least 3 strictly after it; the comparison is over the 3
\* records closest in date on each side, and improved is true exactly when
\* the after average of the fantasy points exceeds the before average.
C25_ComparisonOfClosestThree ==
    (analytics # None /\ analytics[1].outcome = "rendered") =>
        /\ \A i \in C24_Events :
              Cardinality(C25_Entries(db_events[i])) =
                  (IF C25_Compared(db_events[i].event_date)
                   THEN Cardinality(C25_Rows(db_events[i])) ELSE 0)
        /\ \A k \in DOMAIN C25_Analysis :
              LET date == C25_Analysis[k].event.event_date
                  before == C25_Points(C25_LastThree(C25_Before(date)))
                  after == C25_Points(C25_FirstThree(C25_After(date)))
                  fp == C25_Analysis[k].changes["fantasy_points"]
              IN  /\ C25_Rows(C25_Analysis[k].event) # {}
                  /\ C25_Analysis[k].improved = (after > before)
                  /\ fp.before = RoundTenths(Rat(before, 3))
                  /\ fp.after = RoundTenths(Rat(after, 3))
                  /\ fp.change = RoundTenths(Rat(after - before, 3))

\* eight records with 9 points at both ends and 2 in between, an event on day
\* 45 with 4 records on each side and one on day 30 with 2 records before it:
\* one comparison, of 2.0 before with 2.0 after, not improved
C25_Witness ==
    /\ analytics # None
    /\ analytics[1].outcome = "rendered"
    /\ Cardinality(C24_Games) = 8
    /\ db_stats[1].fantasy_points = 9
    /\ db_events = <<EventRow(1, "negative", 45), EventRow(1, "injury", 30)>>
    /\ Len(C25_Analysis) = 1
    /\ C25_Analysis[1].changes["fantasy_points"].before = 20
    /\ C25_Analysis[1].changes["fantasy_points"].after = 20
    /\ ~C25_Analysis[1].improved

(***************************************************************************)
(* Properties of the two services (SpecService, SpecCorr)                  *)
(***************************************************************************)
\* no sweep is in flight: the last one has committed, rolled back or returned
\* for want of players, and its session holds nothing
C26_NoSweepInFlight ==
    /\ pc \in {"idle", "no_players", "committed", "rolled_back"}
    /\ session_new = <<>>
    /\ todo = <<>>

\* C26: a sweep starts only when no sweep is in flight, so the sweeps of one
\* analytics service never overlap; outside a sweep the session holds no row
\* and no pair is left to analyse.
C26_SweepsNeverOverlap ==
    [][/\ sweeps' # sweeps => C26_NoSweepInFlight
       /\ pc' # "analysing" => session_new' = <<>> /\ todo' = <<>>]_vars

\* the second sweep is in flight after the first has committed its rows
C26_Witness ==
    /\ sweeps = 2
    /\ pc = "analysing"
    /\ session_new # <<>>
    /\ db_correlation # <<>>

C27_ResultsOfSweep == Cardinality({k \in DOMAIN calls : calls[k].returned # None})

\* C27: rows of a sweep reach the table only in its commit, all of them in that
\* one step; while the sweep is analysing, and after a sweep that was rolled
\* back, the table holds what it held when the sweep started, whatever number of
\* its analyses had returned a result.
C27_AllOrNothing ==
    [][/\ pc' \in {"analysing", "rolled_back"} => Len(db_correlation') = mark'
       /\ pc' = "rolled_back" => session_new' = <<>>
       /\ db_correlation' # db_correlation =>
             /\ pc = "analysing" /\ pc' = "committed"
             /\ Len(db_correlation) = mark
             /\ Len(db_correlation') = mark + C27_ResultsOfSweep]_vars

\* the second sweep was rolled back after an analysis of it had returned a
\* result; the table holds the rows of the first sweep only
C27_Witness ==
    /\ pc = "rolled_back"
    /\ C27_ResultsOfSweep >= 1
    /\ mark >= 1
    /\ Len(db_correlation) = mark

\* C28: the analytics service has started no sweep, and the collector no
\* collection, before its connection test has succeeded; until then the
\* service is at the test or waiting to repeat it; the analytics service's
\* first sweep also comes after create_analysis_table was called.
C28_NoCycleBeforeConnection ==
    /\ sweeps > 0 => startup.connected /\ startup.created
    /\ startup.created => startup.connected
    /\ ~startup.connected =>
          /\ pc = "starting"
          /\ calls = <<>>
          /\ db_correlation = <<>>
    /\ collector.cycles > 0 => collector.connected
    /\ ~collector.connected => collector.pc = "starting"

\* both services came up after a failed connection test and have run a cycle
C28_Witness ==
    /\ startup.tests_failed >= 1
    /\ sweeps >= 1
    /\ collector.tests_failed >= 1
    /\ collector.cycles >= 1

(***************************************************************************)
(* Properties of the defense import (SpecImport)                           *)
(***************************************************************************)
C29_Teams == {nfl_teams[i] : i \in DOMAIN nfl_teams}
\* the stored profiles of the collector's teams for one season and week
C29_Imported(rows, season, week) ==
    SelectSeq(rows, LAMBDA r : r.season = season /\ r.week = week
                                /\ r.team_abbr \in C29_Teams)
\* an import for the season and week has been committed
C29_HasImport(season, week) ==
    \A t \in C29_Teams : \E i \in DOMAIN db_defense :
        /\ db_defense[i].team_abbr = t
        /\ db_defense[i].season = season
        /\ db_defense[i].week = week

\* C29: after any number of import_team_defense requests no two stored
\* profiles share (team, season, week); once a season and week has been
\* imported it holds one profile for each of the collector's teams, and every
\* later import creates no profile for it and leaves its profiles as they were.
C29_ImportIsIdempotentUpsert ==
    [][/\ \A i \in DOMAIN db_defense' : \A j \in DOMAIN db_defense' :
             (/\ db_defense'[i].team_abbr = db_defense'[j].team_abbr
              /\ db_defense'[i].season = db_defense'[j].season
              /\ db_defense'[i].week = db_defense'[j].week) => i = j
       /\ \A season \in FormSeasons : \A week \in FormWeeks :
             C29_HasImport(season, week) =>
                 /\ Len(C29_Imported(db_defense, season, week)) = Len(nfl_teams)
                 /\ C29_Imported(db_defense', season, week)
                        = C29_Imported(db_defense, season, week)]_vars

\* three imports over a table that held a profile of KC entered by hand: the
\* two weeks hold one profile per team, and the profile of KC has the
\* collector's ranks
C29_Witness ==
    /\ ops = 3
    /\ Len(db_defense) = 2 * Len(nfl_teams)
    /\ db_defense[1].team_abbr = "KC"
    /\ db_defense[1].pass_defense_rank = 16
    /\ db_defense[1].rush_defense_rank = 16

====
